---------------------------- MODULE Spec2Model ----------------------------
(***************************************************************************)
(* Chart builder of D3_tutorial: the Value Parser, the Column Type         *)
(* Inferrer (DataManager), the Mapping Validator (DragDropManager), the    *)
(* Specification Builder (SpecBuilder) and the ChartBuilder orchestrator.  *)
(*                                                                         *)
(* JavaScript strings are TLA+ strings; the character at position i of s   *)
(* is SubSeq(s, i, i).  A cell value is a record [t, n, e, s]:             *)
(*   t = "null"                      null / undefined                      *)
(*   t = "number", s = "fin"         the number n * 10^e (n has no         *)
(*                                   trailing decimal zero unless n = 0)   *)
(*   t = "number", s = "NaN" | "Infinity" | "-Infinity"                    *)
(*   t = "date",   s = the text given to new Date(...)                     *)
(*   t = "string", s = the text                                            *)
(***************************************************************************)
EXTENDS Integers, Sequences, FiniteSets, TLC

VARIABLES
    rawValue,      \* SpecValue: the raw cell handed to parseValue
    parsed,        \* SpecValue: what parseValue returned for it
    rtNumber,      \* SpecValue: the number whose decimal text is round-tripped
    rtStage,       \* SpecValue: "off" | "idle" | "parsed" | "start" | "text1" | "value1" | "text2" | "value2"
    dmInput,       \* SpecData: the file or sample request handed to the DataManager
    dmResult,      \* SpecData: what parseFile / loadSampleData returned or threw
    dmTypes,       \* SpecData: column name -> inferColumnType of the loaded dataset
    dmStage,       \* SpecData: "off" | "input" | "loaded" | "failed" | "inferred"
    bReq,          \* SpecBuild: the call handed to the validator or the builder
    bResp,         \* SpecBuild: what the call returned
    bStage,        \* SpecBuild: "off" | "input" | "validated" | "built" | "builtFull"
    lnLine,        \* SpecLine: the line handed to parseCSVLine
    lnDelimiter,   \* SpecLine: its delimiter
    lnFields,      \* SpecLine: the fields returned
    lnStage,       \* SpecLine: "off" | "input" | "parsed"
    infValues,     \* SpecInfer: the values of the column handed to inferColumnType
    infType,       \* SpecInfer: the type returned
    infStage,      \* SpecInfer: "off" | "input" | "inferred"
    sbVariant,     \* SpecSandbox: which sandbox page is open
    sbCode,        \* SpecSandbox: the editor content
    sbTimers,      \* SpecSandbox: ms left of the pending debounce timeouts, oldest first
    sbDebounceTimer, \* SpecSandbox: this.debounceTimer, as the ms left of the timeout it names (-1: none pending)
    sbStatusTimers, \* SpecSandbox: ms left of the pending status resets
    sbStatus,      \* SpecSandbox: the status text
    sbPreview,     \* SpecSandbox: what the preview shows (the code rendered, or empty)
    sbError,       \* SpecSandbox: whether the error panel is shown
    sbEdit,        \* SpecSandbox: the last edit of the editor content, [age, code], the age in ms up to the debounce delay
    sbRun,         \* SpecSandbox: the last runCode, [by, code], and how many timer runs since the last edit
    pyStage,       \* SpecPy: where setupPyodideAsync is: script | init | pkg1 | pkg2 | pkg3 | ready | failed
    pyScriptTimeout, \* SpecPy: whether the 30 s script timeout is pending
    pyInitTimeout, \* SpecPy: whether the 60 s initialization timeout is pending
    pyLoadPyodide, \* SpecPy: the loadPyodide call: none | running | done | failed
    pyodide,       \* SpecPy: whether this.pyodide is set
    pyStatus,      \* SpecPy: the status text
    pyStatusBy,    \* SpecPy: what set the status last: setup | user | poller
    pyCode,        \* SpecPy: the editor content
    pyPollers,     \* SpecPy: the number of readiness pollers active
    pyExecuted,    \* SpecPy: how many times user code was executed
    pyLastRun,     \* SpecPy: the last execution, [by, code]
    pyOutput,      \* SpecPy: what the output panel shows
    chPage,        \* SpecChart: the page open: v1 (ChartBuilder) | v2 (ChartBuilderV2)
    currentData,   \* SpecChart: this.currentData, [loaded, rows]; not loaded is null
    currentMappings, \* SpecChart: ChartBuilder.currentMappings
    currentChartType, \* SpecChart: ChartBuilder.currentChartType
    chartConfig,   \* SpecChart: ChartBuilder.chartConfig
    columnsList,   \* SpecChart: the column items of the page, [column, type] each
    previewShown,  \* SpecChart: whether the data preview section (with the column items) is displayed
    draggedData,   \* SpecChart: DragDropManager.draggedData
    fieldMappings, \* SpecChart: ChartBuilderV2.fieldMappings
    threads,       \* SpecChart: ChartBuilderV2.threads, the mappings of each thread
    currentThread, \* SpecChart: ChartBuilderV2.currentThread
    selectOptions, \* SpecChart: the fields the selectors of ChartBuilderV2 offer
    chStatus,      \* SpecChart: the status message, [text, class]
    chResets,      \* SpecChart: the number of status resets pending
    chUploads,     \* SpecChart: the number of file reads in progress
    chRenders,     \* SpecChart: the specifications of the embed calls in flight, oldest first
    chContainer,   \* SpecChart: what the chart container shows, [kind, spec]
    chUnhandled,   \* SpecChart: whether a promise rejection was left unhandled
    specDisplay,   \* SpecChart: what the specification display shows
    chPace,        \* SpecChart: the user: waits (acts when no embed call is in flight) | hurries
    currentView,   \* SpecChart: ChartRenderer.currentView, as the specification it renders
    chMisused      \* SpecChart: whether the specification builder was called without data or without x or y

valueVars == <<rawValue, parsed, rtNumber, rtStage>>
dataVars == <<dmInput, dmResult, dmTypes, dmStage>>

buildVars == <<bReq, bResp, bStage>>

lineVars == <<lnLine, lnDelimiter, lnFields, lnStage>>

inferVars == <<infValues, infType, infStage>>

sandboxVars == <<sbVariant, sbCode, sbTimers, sbDebounceTimer, sbStatusTimers, sbStatus, sbPreview, sbError, sbEdit, sbRun>>

pyVars == <<pyStage, pyScriptTimeout, pyInitTimeout, pyLoadPyodide, pyodide, pyStatus, pyStatusBy, pyCode, pyPollers, pyExecuted, pyLastRun, pyOutput>>

chartVars == <<chPage, currentData, currentMappings, currentChartType, chartConfig, columnsList, previewShown, draggedData, fieldMappings, threads, currentThread, selectOptions, chStatus, chResets, chUploads, chRenders, chContainer, chUnhandled, specDisplay, chPace, currentView, chMisused>>

\* what the actions of one specification leave alone
otherThanValue == <<dataVars, buildVars, lineVars, inferVars, sandboxVars, pyVars, chartVars>>
otherThanData == <<valueVars, buildVars, lineVars, inferVars, sandboxVars, pyVars, chartVars>>
otherThanBuild == <<valueVars, dataVars, lineVars, inferVars, sandboxVars, pyVars, chartVars>>
otherThanLine == <<valueVars, dataVars, buildVars, inferVars, sandboxVars, pyVars, chartVars>>
otherThanInfer == <<valueVars, dataVars, buildVars, lineVars, sandboxVars, pyVars, chartVars>>
otherThanSandbox == <<valueVars, dataVars, buildVars, lineVars, inferVars, pyVars, chartVars>>
otherThanPy == <<valueVars, dataVars, buildVars, lineVars, inferVars, sandboxVars, chartVars>>
otherThanChart == <<valueVars, dataVars, buildVars, lineVars, inferVars, sandboxVars, pyVars>>

vars == <<rawValue, parsed, rtNumber, rtStage, dmInput, dmResult, dmTypes, dmStage,
          bReq, bResp, bStage,
          lnLine, lnDelimiter, lnFields, lnStage,
          infValues, infType, infStage,
          sbVariant, sbCode, sbTimers, sbDebounceTimer, sbStatusTimers, sbStatus, sbPreview, sbError, sbEdit, sbRun,
          pyStage, pyScriptTimeout, pyInitTimeout, pyLoadPyodide, pyodide, pyStatus, pyStatusBy, pyCode, pyPollers, pyExecuted, pyLastRun, pyOutput,
          chPage, currentData, currentMappings, currentChartType, chartConfig, columnsList, previewShown, draggedData, fieldMappings, threads, currentThread, selectOptions, chStatus, chResets, chUploads, chRenders, chContainer, chUnhandled, specDisplay, chPace, currentView, chMisused>>

-----------------------------------------------------------------------------
(* Bounds *)

MaxLen == 3        \* longest raw cell enumerated character by character
MaxInt == 120      \* round trip is tried on -MaxInt .. MaxInt
MaxRows == 2
MaxLineLen == 6
MaxRepeat == 3
MaxStatusResets == 2
MaxPollers == 2
MaxRuns == 2
MaxResets == 1
MaxInFlight == 2
MaxUploads == 1
MaxCodeLen == 3       \* most data lines of a generated CSV / TSV file
RandPeriod == 2    \* period of the Math.random() stream

-----------------------------------------------------------------------------
(* Cell values *)

Null == [t |-> "null", n |-> 0, e |-> 0, s |-> ""]
NaN == [t |-> "number", n |-> 0, e |-> 0, s |-> "NaN"]
Infinity == [t |-> "number", n |-> 0, e |-> 0, s |-> "Infinity"]
NegInfinity == [t |-> "number", n |-> 0, e |-> 0, s |-> "-Infinity"]
Str(s) == [t |-> "string", n |-> 0, e |-> 0, s |-> s]
DateOf(s) == [t |-> "date", n |-> 0, e |-> 0, s |-> s]
Unset == [t |-> "unset", n |-> 0, e |-> 0, s |-> ""]

RECURSIVE Normalise(_, _)
Normalise(m, e) ==
    IF m = 0 THEN <<0, 0>>
    ELSE IF m % 10 = 0 THEN Normalise(m \div 10, e + 1)
    ELSE <<m, e>>

\* the finite number m * 10^e
Num(m, e) ==
    LET p == Normalise(m, e)
    IN  [t |-> "number", n |-> p[1], e |-> p[2], s |-> "fin"]

IsFinite(v) == v.t = "number" /\ v.s = "fin"

-----------------------------------------------------------------------------
(* String primitives of the platform *)

At(s, i) == SubSeq(s, i, i)

DigitChars == {"0", "1", "2", "3", "4", "5", "6", "7", "8", "9"}
HexChars == DigitChars \cup {"a", "b", "c", "d", "e", "f", "A", "B", "C", "D", "E", "F"}
WhiteChars == {" ", "\t", "\n", "\r"}

DigitVal(c) ==
    CASE c = "0" -> 0 [] c = "1" -> 1 [] c = "2" -> 2 [] c = "3" -> 3
      [] c = "4" -> 4 [] c = "5" -> 5 [] c = "6" -> 6 [] c = "7" -> 7
      [] c = "8" -> 8 [] c = "9" -> 9

DigitChar(d) ==
    CASE d = 0 -> "0" [] d = 1 -> "1" [] d = 2 -> "2" [] d = 3 -> "3"
      [] d = 4 -> "4" [] d = 5 -> "5" [] d = 6 -> "6" [] d = 7 -> "7"
      [] d = 8 -> "8" [] d = 9 -> "9"

RECURSIVE TrimStart(_)
TrimStart(s) ==
    IF Len(s) > 0 /\ At(s, 1) \in WhiteChars THEN TrimStart(SubSeq(s, 2, Len(s))) ELSE s

RECURSIVE TrimEnd(_)
TrimEnd(s) ==
    IF Len(s) > 0 /\ At(s, Len(s)) \in WhiteChars THEN TrimEnd(SubSeq(s, 1, Len(s) - 1)) ELSE s

\* String.prototype.trim
trim(s) == TrimEnd(TrimStart(s))

startsWith(s, p) == Len(s) >= Len(p) /\ SubSeq(s, 1, Len(p)) = p
endsWith(s, p) == Len(s) >= Len(p) /\ SubSeq(s, Len(s) - Len(p) + 1, Len(s)) = p

\* first position >= i of s that holds no character of set cs (Len(s)+1 if none)
RECURSIVE SkipChars(_, _, _)
SkipChars(s, i, cs) ==
    IF i <= Len(s) /\ At(s, i) \in cs THEN SkipChars(s, i + 1, cs) ELSE i

\* the natural number written by the decimal digits of s ("" is 0)
RECURSIVE DigitsValue(_)
DigitsValue(s) ==
    IF Len(s) = 0 THEN 0
    ELSE 10 * DigitsValue(SubSeq(s, 1, Len(s) - 1)) + DigitVal(At(s, Len(s)))

RECURSIVE DigitCount(_)
DigitCount(m) == IF m < 10 THEN 1 ELSE 1 + DigitCount(m \div 10)

RECURSIVE Pow10(_)
Pow10(k) == IF k = 0 THEN 1 ELSE 10 * Pow10(k - 1)

-----------------------------------------------------------------------------
(* Numeric strings: the platform's StringToNumber grammar, as isNaN and      *)
(* parseFloat apply it (part_009:642-643)                                    *)

\* [ok, m, e]: s is DecimalDigits[.DecimalDigits][ExponentPart] or
\* .DecimalDigits[ExponentPart], unsigned, read in full; its value is m * 10^e
UnsignedDecimal(s) ==
    LET n == Len(s)
        a == SkipChars(s, 1, DigitChars)                  \* after the integer part
        hasDot == a <= n /\ At(s, a) = "."
        b == IF hasDot THEN SkipChars(s, a + 1, DigitChars) ELSE a   \* after the fraction
        intPart == SubSeq(s, 1, a - 1)
        fracPart == IF hasDot THEN SubSeq(s, a + 1, b - 1) ELSE ""
        hasExp == b <= n /\ At(s, b) \in {"e", "E"}
        c == IF hasExp /\ b + 1 <= n /\ At(s, b + 1) \in {"+", "-"} THEN b + 2 ELSE b + 1
        d == IF hasExp THEN SkipChars(s, c, DigitChars) ELSE b       \* after the exponent
        expDigits == IF hasExp THEN SubSeq(s, c, d - 1) ELSE ""
        expNeg == hasExp /\ b + 1 <= n /\ At(s, b + 1) = "-"
        expVal == IF expNeg THEN 0 - DigitsValue(expDigits) ELSE DigitsValue(expDigits)
        good == /\ Len(intPart) + Len(fracPart) > 0
                /\ hasExp => Len(expDigits) > 0
                /\ d = n + 1
    IN  IF good
        THEN [ok |-> TRUE, m |-> DigitsValue(intPart \o fracPart), e |-> expVal - Len(fracPart)]
        ELSE [ok |-> FALSE, m |-> 0, e |-> 0]

\* the double nearest to sign * m * 10^e: beyond the largest double
\* (1.7976931348623157e308) it is an infinity.  Exact for mantissas of at most
\* nine digits and for values above the denormal range.
ToDouble(neg, m, e) ==
    LET p == Normalise(m, e)
        k == DigitCount(p[1])
        sci == k + p[2] - 1                 \* exponent in scientific notation
        lead == p[1] * Pow10(9 - k)         \* first nine digits
        over == p[1] # 0 /\ (sci > 308 \/ (sci = 308 /\ lead > 179769313))
    IN  IF over THEN (IF neg THEN NegInfinity ELSE Infinity)
        ELSE Num(IF neg THEN 0 - p[1] ELSE p[1], p[2])

\* StrDecimalLiteral read in full: [+-] (Infinity | UnsignedDecimal)
StrDecimalLiteral(s) ==
    LET signed == Len(s) > 0 /\ At(s, 1) \in {"+", "-"}
        neg == signed /\ At(s, 1) = "-"
        body == IF signed THEN SubSeq(s, 2, Len(s)) ELSE s
        u == UnsignedDecimal(body)
    IN  IF body = "Infinity"
        THEN [ok |-> TRUE, v |-> IF neg THEN NegInfinity ELSE Infinity]
        ELSE IF u.ok THEN [ok |-> TRUE, v |-> ToDouble(neg, u.m, u.e)]
        ELSE [ok |-> FALSE, v |-> NaN]

\* NonDecimalIntegerLiteral: 0x / 0o / 0b and at least one digit of the radix
NonDecimalLiteral(s) ==
    /\ Len(s) >= 3
    /\ At(s, 1) = "0"
    /\ LET r == At(s, 2)
           cs == IF r \in {"x", "X"} THEN HexChars
                 ELSE IF r \in {"o", "O"} THEN {"0", "1", "2", "3", "4", "5", "6", "7"}
                 ELSE IF r \in {"b", "B"} THEN {"0", "1"}
                 ELSE {}
       IN  SkipChars(s, 3, cs) = Len(s) + 1

\* isNaN(value) for a string: Number(value) is NaN.  Number trims white
\* space, reads "" as 0, and otherwise wants one whole numeric literal.
isNaN(value) ==
    LET t == trim(value)
    IN  ~ (t = "" \/ StrDecimalLiteral(t).ok \/ NonDecimalLiteral(t))

\* parseFloat(value): the longest prefix of the left-trimmed string that is
\* a StrDecimalLiteral, NaN when there is none
RECURSIVE LongestDecimalPrefix(_, _)
LongestDecimalPrefix(s, k) ==
    IF k = 0 THEN NaN
    ELSE LET r == StrDecimalLiteral(SubSeq(s, 1, k))
         IN  IF r.ok THEN r.v ELSE LongestDecimalPrefix(s, k - 1)

parseFloat(value) ==
    LET t == TrimStart(value) IN LongestDecimalPrefix(t, Len(t))

-----------------------------------------------------------------------------
(* DataManager: the Value Parser *)

\* /^\d{4}-\d{2}-\d{2}$/, /^\d{2}\/\d{2}\/\d{4}$/, /^\d{2}-\d{2}-\d{4}$/
MatchesShape(value, widths, sep) ==
    /\ Len(value) = 10
    /\ At(value, widths[1] + 1) = sep
    /\ At(value, widths[1] + widths[2] + 2) = sep
    /\ \A i \in 1..10 :
          (i # widths[1] + 1 /\ i # widths[1] + widths[2] + 2) => At(value, i) \in DigitChars

isDate(value) ==
    \/ MatchesShape(value, <<4, 2, 2>>, "-")
    \/ MatchesShape(value, <<2, 2, 4>>, "/")
    \/ MatchesShape(value, <<2, 2, 4>>, "-")

\* a raw cell: a string, or absent (undefined)
Cell(s) == [def |-> TRUE, s |-> s]
Absent == [def |-> FALSE, s |-> ""]

StripQuotes(value) ==
    IF \/ (startsWith(value, "\"") /\ endsWith(value, "\""))
       \/ (startsWith(value, "'") /\ endsWith(value, "'"))
    THEN SubSeq(value, 2, Len(value) - 1)     \* value.slice(1, -1)
    ELSE value

\* a plausible slip: the falsy test also catches the text "0"
parseValueZeroIsEmpty(cell) ==
    IF ~cell.def \/ cell.s = "" \/ cell.s = "0" THEN Null
    ELSE LET value == StripQuotes(trim(cell.s))
         IN  IF ~isNaN(value) /\ value # "" THEN parseFloat(value)
             ELSE IF isDate(value) THEN DateOf(value)
             ELSE Str(value)

parseValue(cell) ==
    IF ~cell.def \/ cell.s = "" THEN Null
    ELSE LET value == StripQuotes(trim(cell.s))
         IN  IF ~isNaN(value) /\ value # "" THEN parseFloat(value)
             ELSE IF isDate(value) THEN DateOf(value)
             ELSE Str(value)

-----------------------------------------------------------------------------
(* DataManager: CSV / TSV / JSON parsing                                     *)
(* A parser returns [ok, data, error]: the dataset (a sequence of rows, each *)
(* a function from column name to cell value) or the message of the Error it *)
(* throws.                                                                   *)

Parsed(data) == [ok |-> TRUE, data |-> data, error |-> ""]
Thrown(message) == [ok |-> FALSE, data |-> <<>>, error |-> message]

\* String.prototype.split(sep) for a one-character separator
RECURSIVE split(_, _)
split(s, sep) ==
    LET i == CHOOSE k \in 1..(Len(s) + 1) :
                 /\ k = Len(s) + 1 \/ At(s, k) = sep
                 /\ \A j \in 1..(k - 1) : At(s, j) # sep
    IN  IF i = Len(s) + 1 THEN <<s>>
        ELSE <<SubSeq(s, 1, i - 1)>> \o split(SubSeq(s, i + 1, Len(s)), sep)

\* String.prototype.includes for a one-character needle
includes(s, c) == \E i \in 1..Len(s) : At(s, i) = c

UpperLetters == "ABCDEFGHIJKLMNOPQRSTUVWXYZ"
LowerLetters == "abcdefghijklmnopqrstuvwxyz"

LowerChar(c) ==
    IF \E i \in 1..26 : At(UpperLetters, i) = c
    THEN At(LowerLetters, CHOOSE i \in 1..26 : At(UpperLetters, i) = c)
    ELSE c

RECURSIVE toLowerCase(_)
toLowerCase(s) ==
    IF s = "" THEN "" ELSE LowerChar(At(s, 1)) \o toLowerCase(SubSeq(s, 2, Len(s)))

\* the while loop of parseCSVLine, from position i (1-based) on
RECURSIVE CSVLineLoop(_, _, _, _, _, _)
CSVLineLoop(line, delimiter, i, current, inQuotes, values) ==
    IF i > Len(line) THEN Append(values, trim(current))
    ELSE LET char == At(line, i)
         IN  IF char = "\""
             THEN IF inQuotes /\ i + 1 <= Len(line) /\ At(line, i + 1) = "\""
                  THEN CSVLineLoop(line, delimiter, i + 2, current \o "\"", inQuotes, values)
                  ELSE CSVLineLoop(line, delimiter, i + 1, current, ~inQuotes, values)
             ELSE IF char = delimiter /\ ~inQuotes
                  THEN CSVLineLoop(line, delimiter, i + 1, "", inQuotes,
                                   Append(values, trim(current)))
                  ELSE CSVLineLoop(line, delimiter, i + 1, current \o char, inQuotes, values)

\* a plausible slip: the line is cut at every delimiter, quoted or not
parseCSVLineSplit(line, delimiter) ==
    LET parts == split(line, delimiter) IN [i \in 1..Len(parts) |-> trim(parts[i])]

parseCSVLine(line, delimiter) == CSVLineLoop(line, delimiter, 1, "", FALSE, <<>>)

\* a plausible slip: the cells are stored as read, not converted
RowOfUnparsed(headers, values) ==
    [h \in {headers[i] : i \in 1..Len(headers)} |->
        LET last == CHOOSE i \in 1..Len(headers) :
                        /\ headers[i] = h
                        /\ \A j \in (i + 1)..Len(headers) : headers[j] # h
        IN  Str(values[last])]

\* headers.forEach((header, index) => row[header] = parseValue(values[index])):
\* a header name that occurs twice keeps the cell of its last occurrence
RowOf(headers, values) ==
    [h \in {headers[i] : i \in 1..Len(headers)} |->
        LET last == CHOOSE i \in 1..Len(headers) :
                        /\ headers[i] = h
                        /\ \A j \in (i + 1)..Len(headers) : headers[j] # h
        IN  parseValue(Cell(values[last]))]

\* the for loop of parseCSV over lines[i .. ]
RECURSIVE CSVRows(_, _, _, _)
CSVRows(lines, headers, delimiter, i) ==
    IF i > Len(lines) THEN <<>>
    ELSE LET values == parseCSVLine(lines[i], delimiter)
             rest == CSVRows(lines, headers, delimiter, i + 1)
         IN  IF Len(values) # Len(headers) THEN rest
             ELSE <<RowOf(headers, values)>> \o rest

parseCSV(content, delimiter) ==
    LET lines == split(trim(content), "\n")
    IN  IF Len(lines) < 2
        THEN Thrown("CSV file must have at least a header and one data row")
        ELSE Parsed(CSVRows(lines, parseCSVLine(lines[1], delimiter), delimiter, 2))

parseTSV(content) == parseCSV(content, "\t")

\* JSON texts the model feeds to JSON.parse
JsonUniform == "[{\"name\":\"A\",\"value\":30},{\"name\":\"B\",\"value\":80}]"
JsonNumericText == "[{\"zip\":\"30\"},{\"zip\":\"80\"}]"
JsonDateText == "[{\"day\":\"2023-01-15\"},{\"day\":\"2023-02-20\"}]"
JsonRagged == "[{\"a\":1},{\"b\":2}]"
JsonEmptyArray == "[]"
JsonObject == "{\"a\":1}"
JsonBroken == "[{\"a\":1}"

\* JSON.parse, on the texts of the model: [ok, isArray, data, error].  Every
\* other text of the model is no JSON document, or none that is an array.
JSONparse(content) ==
    LET arr(d) == [ok |-> TRUE, isArray |-> TRUE, data |-> d, error |-> ""]
    IN  CASE content = JsonUniform ->
               arr(<<[name |-> Str("A"), value |-> Num(30, 0)],
                     [name |-> Str("B"), value |-> Num(80, 0)]>>)
          [] content = JsonNumericText ->
               arr(<<[zip |-> Str("30")], [zip |-> Str("80")]>>)
          [] content = JsonDateText ->
               arr(<<[day |-> Str("2023-01-15")], [day |-> Str("2023-02-20")]>>)
          [] content = JsonRagged ->
               arr(<<[a |-> Num(1, 0)], [b |-> Num(2, 0)]>>)
          [] content = JsonEmptyArray -> arr(<<>>)
          [] content = JsonObject ->
               [ok |-> TRUE, isArray |-> FALSE, data |-> <<>>, error |-> ""]
          [] OTHER ->
               [ok |-> FALSE, isArray |-> FALSE, data |-> <<>>,
                error |-> "Unexpected token in JSON"]

parseJSON(content) ==
    LET r == JSONparse(content)
    IN  IF ~r.ok THEN Thrown("Invalid JSON format: " \o r.error)
        ELSE IF ~r.isArray
             THEN Thrown("Invalid JSON format: JSON data must be an array of objects")
        ELSE Parsed(r.data)

parseAutoDetect(content) ==
    LET csv == parseCSV(content, ",")
        tsv == parseTSV(content)
        json == parseJSON(content)
    IN  IF includes(content, ",") /\ csv.ok THEN csv
        ELSE IF includes(content, "\t") /\ tsv.ok THEN tsv
        ELSE IF (startsWith(trim(content), "[") \/ startsWith(trim(content), "{")) /\ json.ok
             THEN json
        ELSE Thrown("Could not detect file format. Please ensure it is CSV, TSV, or JSON.")

\* file.name.split('.').pop().toLowerCase()
Extension(name) ==
    LET parts == split(name, ".") IN toLowerCase(parts[Len(parts)])

\* a file is [name, content, readable]; FileReader fails on an unreadable one
parseFile(file) ==
    LET extension == Extension(file.name)
    IN  IF ~file.readable THEN Thrown("Failed to read file")
        ELSE CASE extension = "csv" -> parseCSV(file.content, ",")
               [] extension = "tsv" -> parseTSV(file.content)
               [] extension = "json" -> parseJSON(file.content)
               [] extension = "txt" -> parseAutoDetect(file.content)
               [] OTHER -> Thrown("Unsupported file format: " \o extension)

-----------------------------------------------------------------------------
(* DataManager: the Column Type Inferrer *)

\* row[column]: undefined (null here) when the row has no such key
Field(row, column) == IF column \in DOMAIN row THEN row[column] ELSE Null

\* data.map(row => row[column]).filter(val => val != null)
ColumnValues(data, column) ==
    LET all == [i \in 1..Len(data) |-> Field(data[i], column)]
        keep(v) == v.t # "null"
    IN  SelectSeq(all, keep)

ordinalPatterns ==
    << {"low", "medium", "high"},
       {"small", "medium", "large"},
       {"poor", "fair", "good", "excellent"},
       {"never", "rarely", "sometimes", "often", "always"} >>

CountOf(values, kind) == Cardinality({i \in 1..Len(values) : values[i].t = kind})

\* a plausible slip: the distinct values may be exactly half of the values
inferColumnTypeAtMostHalf(data, column) ==
    IF Len(data) = 0 THEN "nominal"
    ELSE
    LET values == ColumnValues(data, column)
        uniqueValues == {values[i].s : i \in 1..Len(values)}
        lowerValues == {toLowerCase(v) : v \in uniqueValues}
    IN  IF Len(values) = 0 THEN "nominal"
        ELSE IF CountOf(values, "number") = Len(values) THEN "quantitative"
        ELSE IF CountOf(values, "date") = Len(values) THEN "temporal"
        ELSE IF /\ CountOf(values, "string") = Len(values)
                /\ 2 * Cardinality(uniqueValues) <= Len(values)
                /\ Cardinality(uniqueValues) < 20
             THEN IF \E k \in 1..Len(ordinalPatterns) : ordinalPatterns[k] \subseteq lowerValues
                  THEN "ordinal"
                  ELSE IF \A v \in uniqueValues : Len(v) <= 3 THEN "nominal"
                  ELSE "ordinal"
        ELSE "nominal"

inferColumnType(data, column) ==
    IF Len(data) = 0 THEN "nominal"
    ELSE
    LET values == ColumnValues(data, column)
        uniqueValues == {values[i].s : i \in 1..Len(values)}
        lowerValues == {toLowerCase(v) : v \in uniqueValues}
    IN  IF Len(values) = 0 THEN "nominal"
        ELSE IF CountOf(values, "number") = Len(values) THEN "quantitative"
        ELSE IF CountOf(values, "date") = Len(values) THEN "temporal"
        ELSE IF /\ CountOf(values, "string") = Len(values)
                /\ 2 * Cardinality(uniqueValues) < Len(values)  \* < values.length * 0.5
                /\ Cardinality(uniqueValues) < 20
             THEN IF \E k \in 1..Len(ordinalPatterns) : ordinalPatterns[k] \subseteq lowerValues
                  THEN "ordinal"
                  ELSE IF \A v \in uniqueValues : Len(v) <= 3 THEN "nominal"
                  ELSE "ordinal"
        ELSE "nominal"

-----------------------------------------------------------------------------
(* Number to text: String(n) / Number.prototype.toString for integers        *)

RECURSIVE NatToString(_)
NatToString(m) ==
    IF m < 10 THEN DigitChar(m) ELSE NatToString(m \div 10) \o DigitChar(m % 10)

RECURSIVE Zeros(_)
Zeros(k) == IF k = 0 THEN "" ELSE "0" \o Zeros(k - 1)

\* the decimal text of a finite integer value (v.e >= 0), without leading zeros
numberToString(v) ==
    IF v.n < 0 THEN "-" \o NatToString(0 - v.n) \o Zeros(v.e)
    ELSE NatToString(v.n) \o Zeros(v.e)

-----------------------------------------------------------------------------
(* DataManager: the sample datasets                                          *)
(* Math.random() is a stream rnd of tenths (1, 5, 9 for 0.1, 0.5, 0.9) read  *)
(* cyclically: the k-th call (from 0) returns rnd[(k % Len(rnd)) + 1] / 10.  *)
(* With these values every Math.round below is exact.                        *)

RandomTenths == {1, 5, 9}

random(rnd, k) == rnd[(k % Len(rnd)) + 1]

Max(a, b) == IF a >= b THEN a ELSE b
Min(a, b) == IF a <= b THEN a ELSE b

RECURSIVE Concat(_)
Concat(seqs) == IF Len(seqs) = 0 THEN <<>> ELSE Head(seqs) \o Concat(Tail(seqs))

\* generateSalesData, its first Math.random() being call number k0
generateSalesData(rnd, k0) ==
    LET regions == <<"North", "South", "East", "West">>
        quarters == <<"Q1", "Q2", "Q3", "Q4">>
        categories == <<"Electronics", "Clothing", "Home", "Sports">>
        row(j) ==
            [region |-> Str(regions[(j \div 16) + 1]),
             quarter |-> Str(quarters[((j \div 4) % 4) + 1]),
             category |-> Str(categories[(j % 4) + 1]),
             sales |-> Num(random(rnd, k0 + 3 * j) * 10000 + 10000, 0),
             profit |-> Num(random(rnd, k0 + 3 * j + 1) * 2000 + 2000, 0),
             units |-> Num(random(rnd, k0 + 3 * j + 2) * 100 + 100, 0)]
    IN  [j \in 1..64 |-> row(j - 1)]

PerSpecies == 50

\* generateIrisData: each measure is Math.round((mean + (r - 0.5) * w) * 10) / 10
generateIrisData(rnd, k0) ==
    LET species == <<"setosa", "versicolor", "virginica">>
        means10 == << <<50, 34, 15, 2>>, <<59, 28, 43, 13>>, <<65, 30, 56, 20>> >>
        twiceW == <<4, 3, 4, 2>>             \* w = 2, 1.5, 2, 1
        measure(sp, j, a) ==
            Num(means10[sp][a] + ((random(rnd, k0 + 4 * j + a - 1) - 5) * twiceW[a]) \div 2, -1)
        row(j) ==
            LET sp == (j \div PerSpecies) + 1
            IN  [species |-> Str(species[sp]),
                 sepalLength |-> measure(sp, j, 1),
                 sepalWidth |-> measure(sp, j, 2),
                 petalLength |-> measure(sp, j, 3),
                 petalWidth |-> measure(sp, j, 4)]
    IN  [j \in 1..(3 * PerSpecies) |-> row(j - 1)]

DaysPerCompany == 365
SliceLimit == 500

Pad2(n) == IF n < 10 THEN "0" \o NatToString(n) ELSE NatToString(n)

\* date.toISOString().split('T')[0] of 2023-01-01 plus day days (UTC clock)
RECURSIVE MonthAndDay(_, _)
MonthAndDay(day, month) ==
    LET lengths == <<31, 28, 31, 30, 31, 30, 31, 31, 30, 31, 30, 31>>
    IN  IF day < lengths[month] THEN <<month, day + 1>>
        ELSE MonthAndDay(day - lengths[month], month + 1)

IsoDate(day) ==
    LET md == MonthAndDay(day, 1) IN "2023-" \o Pad2(md[1]) \o "-" \o Pad2(md[2])

\* The inner for loop of generateStockData for days lo .. hi-1 of one company,
\* entered with the given price; k0 is the call of Math.random() that draws
\* the change of day 0.  The days are run in order, first half then second
\* half (halving keeps the evaluation shallow).  Returns <<rows, last price>>.
RECURSIVE StockDays(_, _, _, _, _, _)
StockDays(company, rnd, k0, lo, hi, price) ==
    IF hi - lo = 1
    THEN LET change == random(rnd, k0 + 2 * lo) - 5          \* (Math.random() - 0.5) * 10
             newPrice == Max(price + change, 10)
         IN  << << [company |-> Str(company),
                    date |-> Str(IsoDate(lo)),
                    price |-> Num(newPrice, 0),
                    volume |-> Num(random(rnd, k0 + 2 * lo + 1) * 100000 + 100000, 0),
                    change |-> Num(change, 0)] >>,
                newPrice >>
    ELSE LET mid == (lo + hi) \div 2
             first == StockDays(company, rnd, k0, lo, mid, price)
             second == StockDays(company, rnd, k0, mid, hi, first[2])
         IN  <<first[1] \o second[1], second[2]>>

\* companies.forEach(... 365 days ...), then data.slice(0, 500): a company's
\* days are generated as far as the slice reaches
generateStockData(rnd, k0) ==
    LET companies == <<"AAPL", "GOOGL", "MSFT", "AMZN", "TSLA">>
        perCompany == 1 + 2 * DaysPerCompany                \* calls of Math.random()
        days(c) == Min(DaysPerCompany, SliceLimit - (c - 1) * DaysPerCompany)
        needed == {c \in 1..Len(companies) : days(c) > 0}
        rows(c) ==
            StockDays(companies[c], rnd, k0 + (c - 1) * perCompany + 1, 0, days(c),
                      random(rnd, k0 + (c - 1) * perCompany) * 20 + 50)[1]
    IN  Concat([c \in 1..Cardinality(needed) |-> rows(c)])

\* loadSampleData builds all three datasets, then picks one
loadSampleData(sampleType, rnd) ==
    CASE sampleType = "sales" -> Parsed(generateSalesData(rnd, 0))
      [] sampleType = "iris" -> Parsed(generateIrisData(rnd, 3 * 64))
      [] sampleType = "stocks" ->
             Parsed(generateStockData(rnd, 3 * 64 + 4 * 3 * PerSpecies))
      [] OTHER -> Thrown("Unknown sample type: " \o sampleType)

-----------------------------------------------------------------------------
(* DragDropManager: the Mapping Validator *)

validMappings ==
    [x |-> {"nominal", "ordinal", "quantitative", "temporal"},
     y |-> {"quantitative"},
     color |-> {"nominal", "ordinal", "quantitative"},
     size |-> {"quantitative"}]

\* a plausible slip: the size channel takes what the color channel takes
validateMappingSizeAsColor(encoding, dragData) ==
    /\ encoding \in DOMAIN validMappings
    /\ dragData.type \in validMappings[IF encoding = "size" THEN "color" ELSE encoding]

\* dragData is {column, type}.  The special case for y (part_010:202-206) is
\* reached only after the table has accepted, and returns what the last line
\* returns.
validateMapping(encoding, dragData) ==
    IF encoding \notin DOMAIN validMappings \/ dragData.type \notin validMappings[encoding]
    THEN FALSE
    ELSE IF encoding = "y" /\ dragData.type \in {"nominal", "ordinal"} THEN TRUE
    ELSE TRUE

-----------------------------------------------------------------------------
(* SpecBuilder                                                               *)
(* A mapping is null (NullMapping) or an object, a function from its keys to *)
(* strings: {column, type} as ChartBuilder stores it.  A property read gives *)
(* Cell(text) or Absent (undefined).  buildSpec / buildFullSpec return       *)
(* [ok, spec, error]: the object built, or the TypeError raised on the way.  *)

NullMapping == [null |-> TRUE]
Mapping(column, type) == [column |-> column, type |-> type]

\* mappings[channel], undefined when the object has no such key
Channel(mappings, channel) ==
    IF channel \in DOMAIN mappings THEN mappings[channel] ELSE NullMapping

IsMapped(m) == m # NullMapping

Prop(obj, key) == IF key \in DOMAIN obj THEN Cell(obj[key]) ELSE Absent

\* a || b for numbers given as cell values: 0 and NaN are falsy
Truthy(v) ==
    CASE v.t = "null" -> FALSE
      [] v.t = "number" -> ~(v.s = "NaN" \/ (v.s = "fin" /\ v.n = 0))
      [] v.t = "string" -> v.s # ""
      [] OTHER -> TRUE

UpperChar(c) ==
    IF \E i \in 1..26 : At(LowerLetters, i) = c
    THEN At(UpperLetters, CHOOSE i \in 1..26 : At(LowerLetters, i) = c)
    ELSE c

IsUpper(c) == \E i \in 1..26 : At(UpperLetters, i) = c

\* .replace(/_/g, ' ').replace(/([A-Z])/g, ' $1'), character by character
RECURSIVE SpaceOut(_)
SpaceOut(s) ==
    IF s = "" THEN ""
    ELSE LET c == At(s, 1)
             rest == SpaceOut(SubSeq(s, 2, Len(s)))
         IN  IF c = "_" THEN " " \o rest
             ELSE IF IsUpper(c) THEN " " \o c \o rest
             ELSE c \o rest

\* formatTitle of a string: ... .replace(/^./, str => str.toUpperCase()).trim()
formatTitle(columnName) ==
    LET spaced == SpaceOut(columnName)
        capped == IF spaced = "" \/ At(spaced, 1) \in {"\n", "\r"} THEN spaced
                  ELSE UpperChar(At(spaced, 1)) \o SubSeq(spaced, 2, Len(spaced))
    IN  trim(capped)

\* formatTitle(mapping.column): only called on a defined column (see Throws)
TitleOf(m) == formatTitle(Prop(m, "column").s)

buildAxisConfig(axis, type) ==
    LET config == [grid |-> TRUE, tickCount |-> IF axis = "x" THEN 10 ELSE 5, labelAngle |-> 0]
    IN  CASE type = Cell("temporal") ->
                 [config EXCEPT !.labelAngle = -45] @@ [format |-> "%b %Y"]
          [] type = Cell("quantitative") -> config @@ [format |-> ".1f"]
          [] type \in {Cell("nominal"), Cell("ordinal")} ->
                 IF axis = "x" THEN [config EXCEPT !.labelAngle = -45] ELSE config
          [] OTHER -> config

buildColorScale(type) ==
    CASE type = Cell("nominal") -> [scheme |-> "category10"]
      [] type = Cell("ordinal") -> [scheme |-> "blues", reverse |-> FALSE]
      [] type = Cell("quantitative") -> [scheme |-> "viridis", reverse |-> FALSE]
      [] OTHER -> [scheme |-> "category10"]

buildSizeScale(type) ==
    CASE type = Cell("quantitative") -> [range |-> <<50, 400>>, nice |-> TRUE]
      [] type = Cell("ordinal") -> [range |-> <<50, 200, 350>>, nice |-> FALSE]
      [] OTHER -> [range |-> <<50, 200>>]

markConfigs ==
    [bar |-> [type |-> "bar", tooltip |-> TRUE],
     scatter |-> [type |-> "circle", tooltip |-> TRUE, size |-> 60],
     line |-> [type |-> "line", tooltip |-> TRUE, point |-> TRUE],
     area |-> [type |-> "area", tooltip |-> TRUE],
     histogram |-> [type |-> "bar", tooltip |-> TRUE],
     boxplot |-> [type |-> "boxplot", tooltip |-> TRUE]]

\* a plausible slip: the scatter entry is written with Vega-Lite's other dot mark
buildMarkPoint(chartType, mappings) ==
    LET baseConfig == IF chartType = "scatter" THEN [type |-> "point", tooltip |-> TRUE]
                      ELSE IF chartType \in DOMAIN markConfigs THEN markConfigs[chartType]
                      ELSE [type |-> chartType, tooltip |-> TRUE]
    IN  IF IsMapped(Channel(mappings, "color"))
        THEN [stroke |-> "white", strokeWidth |-> Num(5, -1)] @@ baseConfig
        ELSE baseConfig

buildMark(chartType, mappings) ==
    LET baseConfig == IF chartType \in DOMAIN markConfigs THEN markConfigs[chartType]
                      ELSE [type |-> chartType, tooltip |-> TRUE]
    IN  IF IsMapped(Channel(mappings, "color"))
        THEN [stroke |-> "white", strokeWidth |-> Num(5, -1)] @@ baseConfig
        ELSE baseConfig

\* the channels buildEncoding looks at
EncodingChannels == {"x", "y", "color", "size"}

\* one entry of the encoding object
EncodingEntry(channel, m) ==
    LET base == [field |-> Prop(m, "column"), type |-> Prop(m, "type"), title |-> TitleOf(m)]
    IN  CASE channel \in {"x", "y"} ->
                 base @@ [axis |-> buildAxisConfig(channel, Prop(m, "type"))]
          [] channel = "color" ->
                 base @@ [scale |-> buildColorScale(Prop(m, "type")),
                          legend |-> [title |-> TitleOf(m)]]
          [] channel = "size" ->
                 base @@ [scale |-> buildSizeScale(Prop(m, "type")),
                          legend |-> [title |-> TitleOf(m)]]

\* a plausible slip: the x entry is filled from the y mapping and the y entry from x
buildEncodingSwapped(mappings) ==
    LET other(c) == IF c = "x" THEN "y" ELSE IF c = "y" THEN "x" ELSE c
    IN  [c \in {ch \in EncodingChannels : IsMapped(Channel(mappings, other(ch)))} |->
            EncodingEntry(c, Channel(mappings, other(c)))]

buildEncoding(mappings) ==
    [c \in {ch \in EncodingChannels : IsMapped(Channel(mappings, ch))} |->
        EncodingEntry(c, Channel(mappings, c))]

\* formatTitle(undefined) raises a TypeError: a populated mapping without a
\* column key, among the channels the caller walks
Throws(mappings, channels) ==
    \E c \in channels : IsMapped(Channel(mappings, c)) /\ ~Prop(Channel(mappings, c), "column").def

buildConfig(chartType) ==
    [view |-> [continuousWidth |-> 400, continuousHeight |-> 300],
     axis |-> [labelFontSize |-> 11, titleFontSize |-> 12, titleFontWeight |-> "bold"],
     legend |-> [labelFontSize |-> 11, titleFontSize |-> 12, titleFontWeight |-> "bold"],
     title |-> [fontSize |-> 16, fontWeight |-> "bold", anchor |-> "start"]]

Built(spec) == [ok |-> TRUE, spec |-> spec, error |-> ""]
TypeError == [ok |-> FALSE, spec |-> <<>>, error |-> "TypeError"]

\* args is {data, chartType, mappings, config}; config is {title, width, height}
buildSpec(args) ==
    LET config == args.config
        spec == ("$schema" :> "https://vega.github.io/schema/vega-lite/v5.json")
                @@ [description |-> IF config.title # "" THEN config.title
                                    ELSE args.chartType \o " chart",
                    data |-> [values |-> args.data],
                    mark |-> buildMark(args.chartType, args.mappings),
                    encoding |-> buildEncoding(args.mappings),
                    width |-> IF Truthy(config.width) THEN config.width ELSE Num(600, 0),
                    height |-> IF Truthy(config.height) THEN config.height ELSE Num(400, 0),
                    config |-> buildConfig(args.chartType)]
        titled == IF config.title # ""
                  THEN spec @@ [title |-> [text |-> config.title, anchor |-> "start",
                                           fontSize |-> 16, fontWeight |-> "bold"]]
                  ELSE spec
    IN  IF Throws(args.mappings, EncodingChannels) THEN TypeError ELSE Built(titled)

\* a plausible slip: the metadata walks the two required channels only
buildEncodingMetadataXY(mappings) ==
    [c \in {ch \in DOMAIN mappings \cap {"x", "y"} : IsMapped(mappings[ch])} |->
        [field |-> Prop(mappings[c], "column"),
         type |-> Prop(mappings[c], "type"),
         title |-> TitleOf(mappings[c])]]

\* Object.entries(mappings).forEach(...): every key whose mapping is truthy
buildEncodingMetadata(mappings) ==
    [c \in {ch \in DOMAIN mappings : IsMapped(mappings[ch])} |->
        [field |-> Prop(mappings[c], "column"),
         type |-> Prop(mappings[c], "type"),
         title |-> TitleOf(mappings[c])]]

Pad3(n) == IF n < 10 THEN "00" \o NatToString(n)
           ELSE IF n < 100 THEN "0" \o NatToString(n) ELSE NatToString(n)

\* new Date().toISOString() at clock reading now (milliseconds, within the
\* first minute of the epoch)
toISOString(now) ==
    "1970-01-01T00:00:" \o Pad2(now \div 1000) \o "." \o Pad3(now % 1000) \o "Z"

\* `chart_${Date.now()}_${Math.random().toString(36).substr(2, 9)}`
generateChartId(now, suffix) == "chart_" \o NatToString(now) \o "_" \o suffix

\* now is the clock reading, suffix the random tail of the id
buildFullSpec(args, now, suffix) ==
    LET vegaSpec == buildSpec(args)
        config == args.config
        mapped == {k \in DOMAIN args.mappings : IsMapped(args.mappings[k])}
        full ==
            [id |-> generateChartId(now, suffix),
             version |-> "1.0",
             metadata |-> [created |-> toISOString(now),
                           title |-> IF config.title # "" THEN config.title
                                     ELSE "Untitled Chart",
                           description |-> args.chartType \o " chart with "
                                           \o NatToString(Cardinality(mapped)) \o " encodings"],
             data |-> [source |-> "inline", format |-> "json", values |-> args.data,
                       name |-> "chart_data"],
             chart |-> [type |-> args.chartType,
                        encoding |-> buildEncodingMetadata(args.mappings),
                        config |-> [width |-> IF Truthy(config.width) THEN config.width
                                              ELSE Num(600, 0),
                                    height |-> IF Truthy(config.height) THEN config.height
                                               ELSE Num(400, 0),
                                    padding |-> [top |-> 20, right |-> 30, bottom |-> 40,
                                                 left |-> 50],
                                    background |-> "#ffffff",
                                    title |-> [text |-> config.title, fontSize |-> 16,
                                               anchor |-> "middle"]]],
             interactions |-> [tooltip |-> TRUE, zoom |-> FALSE, brush |-> FALSE,
                               click |-> "none"],
             vegaLiteSpec |-> vegaSpec.spec]
    IN  IF ~vegaSpec.ok \/ Throws(args.mappings, DOMAIN args.mappings) THEN TypeError
        ELSE Built(full)

-----------------------------------------------------------------------------
(* SpecValue: parseValue applied to raw cells, and the decimal round trip    *)

\* characters raw cells are enumerated over
Alphabet == {"0", "1", "7", "-", ".", "/", "'", "\"", " ", "A", "e", "x"}

RECURSIVE StringsUpTo(_)
StringsUpTo(k) ==
    IF k = 0 THEN {""}
    ELSE LET shorter == StringsUpTo(k - 1)
         IN  shorter \cup {s \o c : s \in shorter, c \in Alphabet}

\* longer cells of every kind the parser distinguishes
LongCells ==
    { "2023-01-15", "01/15/2023", "01-15-2023", "13/45/2023", "2023-1-15",
      "\"2023-01-15\"", "Infinity", "-Infinity", "1e999", "0x1A", "00501",
      "  42  ", "'3.50'", "\"high\"", "North", "1,000", "12abc", "3.14.15" }

RawCells == {Absent} \cup {Cell(s) : s \in StringsUpTo(MaxLen) \cup LongCells}

\* the variables of the other specifications, at rest
ValueOff == rawValue = Absent /\ parsed = Unset /\ rtNumber = 0 /\ rtStage = "off"
DataOff ==
    /\ dmInput = [kind |-> "none"]
    /\ dmResult = Thrown("")
    /\ dmTypes = <<>>
    /\ dmStage = "off"

BuildOff == bReq = [kind |-> "none"] /\ bResp = [kind |-> "none"] /\ bStage = "off"

LineOff == lnLine = "" /\ lnDelimiter = "" /\ lnFields = <<>> /\ lnStage = "off"

InferOff == infValues = <<>> /\ infType = "" /\ infStage = "off"

SandboxOff == sbVariant = "none" /\ sbCode = "" /\ sbTimers = <<>> /\ sbDebounceTimer = -1 /\ sbStatusTimers = {} /\ sbStatus = "" /\ sbPreview = "" /\ sbError = FALSE /\ sbEdit = [age |-> 0, code |-> ""] /\ sbRun = [by |-> "none", code |-> "", timerRuns |-> 0]

PyOff == pyStage = "off" /\ pyScriptTimeout = FALSE /\ pyInitTimeout = FALSE /\ pyLoadPyodide = "none" /\ pyodide = FALSE /\ pyStatus = "" /\ pyStatusBy = "none" /\ pyCode = "" /\ pyPollers = 0 /\ pyExecuted = 0 /\ pyLastRun = [by |-> "none", code |-> ""] /\ pyOutput = ""

ChartOff == chPage = "none" /\ currentData = [loaded |-> FALSE, rows |-> <<>>] /\ currentMappings = <<>> /\ currentChartType = "" /\ chartConfig = <<>> /\ columnsList = {} /\ previewShown = FALSE /\ draggedData = [null |-> TRUE] /\ fieldMappings = <<>> /\ threads = <<>> /\ currentThread = 0 /\ selectOptions = {} /\ chStatus = [text |-> "", class |-> ""] /\ chResets = 0 /\ chUploads = 0 /\ chRenders = <<>> /\ chContainer = [kind |-> "none"] /\ chUnhandled = FALSE /\ specDisplay = "" /\ chPace = "none" /\ currentView = [none |-> TRUE] /\ chMisused = FALSE

\* the variables of the other specifications at rest
RestButValue == DataOff /\ BuildOff /\ LineOff /\ InferOff /\ SandboxOff /\ PyOff /\ ChartOff
RestButData == ValueOff /\ BuildOff /\ LineOff /\ InferOff /\ SandboxOff /\ PyOff /\ ChartOff
RestButBuild == ValueOff /\ DataOff /\ LineOff /\ InferOff /\ SandboxOff /\ PyOff /\ ChartOff
RestButLine == ValueOff /\ DataOff /\ BuildOff /\ InferOff /\ SandboxOff /\ PyOff /\ ChartOff
RestButInfer == ValueOff /\ DataOff /\ BuildOff /\ LineOff /\ SandboxOff /\ PyOff /\ ChartOff
RestButSandbox == ValueOff /\ DataOff /\ BuildOff /\ LineOff /\ InferOff /\ PyOff /\ ChartOff
RestButPy == ValueOff /\ DataOff /\ BuildOff /\ LineOff /\ InferOff /\ SandboxOff /\ ChartOff
RestButChart == ValueOff /\ DataOff /\ BuildOff /\ LineOff /\ InferOff /\ SandboxOff /\ PyOff

InitValue ==
    /\ RestButValue
    /\ parsed = Unset
    /\ \/ /\ rtStage = "idle"
          /\ rawValue \in RawCells
          /\ rtNumber = 0
       \/ /\ rtStage = "start"
          /\ rawValue = Absent
          /\ rtNumber \in (0 - MaxInt)..MaxInt

\* the cell goes through parseValue
ParseValue ==
    /\ rtStage \in {"idle", "text1", "text2"}
    /\ parsed' = parseValue(rawValue)
    /\ rtStage' = CASE rtStage = "idle" -> "parsed"
                    [] rtStage = "text1" -> "value1"
                    [] rtStage = "text2" -> "value2"
    /\ UNCHANGED <<rawValue, rtNumber>>
    /\ UNCHANGED otherThanValue

\* a number is written as its decimal text, to be parsed (again)
FormatNumber ==
    \/ /\ rtStage = "start"
       /\ rawValue' = Cell(numberToString(Num(rtNumber, 0)))
       /\ rtStage' = "text1"
       /\ UNCHANGED <<parsed, rtNumber>>
       /\ UNCHANGED otherThanValue
    \/ /\ rtStage = "value1"
       /\ IsFinite(parsed) /\ parsed.e >= 0
       /\ rawValue' = Cell(numberToString(parsed))
       /\ rtStage' = "text2"
       /\ UNCHANGED <<parsed, rtNumber>>
       /\ UNCHANGED otherThanValue

NextValue == ParseValue \/ FormatNumber

SpecValue == InitValue /\ [][NextValue]_vars

-----------------------------------------------------------------------------
(* C8 *)

\* C8: parseValue never fails; an empty or absent cell gives null, and the
\* result is always null, a finite number, a date or a string.
C8_ParseValueKinds ==
    rtStage = "parsed" =>
        /\ (~rawValue.def \/ rawValue.s = "") => parsed = Null
        /\ \/ parsed.t \in {"null", "date", "string"}
           \/ IsFinite(parsed)

-----------------------------------------------------------------------------
(* C9 *)

\* C9: an integer written as decimal text without leading zeros parses back
\* to itself, and writing and parsing the result once more gives it again.
C9_RoundTrip ==
    rtStage \in {"value1", "value2"} => parsed = Num(rtNumber, 0)

C9_Witness == rtStage = "value2" /\ rtNumber < 0 /\ parsed = Num(rtNumber, 0)

-----------------------------------------------------------------------------
(* SpecData: a file or a sample request goes through the DataManager, then   *)
(* every column of the dataset through inferColumnType                       *)

CsvHeader == <<"name", "value">>
CsvCells == {"30", "A", "2023-01-15", ""}

\* data lines: two cells (as the header wants), or one, or three
CsvLines ==
    {<<a, b>> : a \in CsvCells, b \in CsvCells} \cup {<<"30">>, <<"A", "30", "80">>}

RECURSIVE JoinWith(_, _)
JoinWith(cells, sep) ==
    IF Len(cells) = 0 THEN ""
    ELSE IF Len(cells) = 1 THEN cells[1]
    ELSE cells[1] \o sep \o JoinWith(Tail(cells), sep)

\* header line, data lines, each ended by a newline
RECURSIVE TextOf(_, _)
TextOf(lines, sep) ==
    IF Len(lines) = 0 THEN "" ELSE JoinWith(Head(lines), sep) \o "\n" \o TextOf(Tail(lines), sep)

RECURSIVE SeqsUpTo(_, _)
SeqsUpTo(S, k) ==
    IF k = 0 THEN {<<>>}
    ELSE LET shorter == SeqsUpTo(S, k - 1)
         IN  shorter \cup {Append(q, x) : q \in shorter, x \in S}

\* [name, content, readable] and, for a generated file, the cells it was written from
GeneratedFile(name, sep, rows) ==
    [name |-> name, content |-> TextOf(<<CsvHeader>> \o rows, sep), readable |-> TRUE,
     header |-> CsvHeader, rows |-> rows]

PlainFile(name, content, readable) ==
    [name |-> name, content |-> content, readable |-> readable, header |-> <<>>, rows |-> <<>>]

ScenarioCsv == "name,value\nA,30\nB,80\n"

JsonTexts ==
    {JsonUniform, JsonNumericText, JsonDateText, JsonRagged, JsonEmptyArray, JsonObject, JsonBroken}

Files ==
    {GeneratedFile("data.csv", ",", rows) : rows \in SeqsUpTo(CsvLines, MaxRows)}
    \cup {GeneratedFile("data.tsv", "\t", rows) : rows \in SeqsUpTo(CsvLines, MaxRows)}
    \cup {GeneratedFile("notes.txt", ",", rows) : rows \in SeqsUpTo(CsvLines, MaxRows)}
    \cup {PlainFile("data.json", t, TRUE) : t \in JsonTexts}
    \cup {PlainFile("notes.txt", t, TRUE) : t \in JsonTexts}
    \cup {PlainFile("scenario.csv", ScenarioCsv, TRUE),
          PlainFile("quoted.csv", "name,value\n\"x,y\",30\n\"say \"\"hi\"\"\",80\n", TRUE),
          PlainFile("tabs.txt", "name\tvalue\nA\t30\n", TRUE),
          PlainFile("REPORT.CSV", ScenarioCsv, TRUE),
          PlainFile("data.xml", ScenarioCsv, TRUE),
          PlainFile("README", "plain words", TRUE),
          PlainFile("notes.txt", "plain words", TRUE),
          PlainFile("broken.csv", ScenarioCsv, FALSE)}

SampleTypes == {"sales", "iris", "stocks", "weather"}

FileInput(f) == [kind |-> "file", file |-> f, sample |-> "", rnd |-> <<>>]
SampleInput(t, rnd) ==
    [kind |-> "sample", file |-> PlainFile("", "", TRUE), sample |-> t, rnd |-> rnd]

InitData ==
    /\ RestButData
    /\ dmStage = "input"
    /\ dmResult = Thrown("")
    /\ dmTypes = <<>>
    /\ \/ \E f \in Files : dmInput = FileInput(f)
       \/ \E t \in SampleTypes, rnd \in [1..RandPeriod -> RandomTenths] :
              dmInput = SampleInput(t, rnd)

\* DataManager.parseFile(file)
ParseFile ==
    /\ dmStage = "input"
    /\ dmInput.kind = "file"
    /\ dmResult' = parseFile(dmInput.file)
    /\ dmStage' = IF dmResult'.ok THEN "loaded" ELSE "failed"
    /\ UNCHANGED <<dmInput, dmTypes>>
    /\ UNCHANGED otherThanData

\* DataManager.loadSampleData(sampleType)
LoadSampleData ==
    /\ dmStage = "input"
    /\ dmInput.kind = "sample"
    /\ dmResult' = loadSampleData(dmInput.sample, dmInput.rnd)
    /\ dmStage' = IF dmResult'.ok THEN "loaded" ELSE "failed"
    /\ UNCHANGED <<dmInput, dmTypes>>
    /\ UNCHANGED otherThanData

\* the column names that occur in the dataset
Columns(data) == UNION {DOMAIN data[i] : i \in 1..Len(data)}

\* DataManager.inferColumnType(data, column), for every column
InferColumnTypes ==
    /\ dmStage = "loaded"
    /\ dmTypes' = [c \in Columns(dmResult.data) |-> inferColumnType(dmResult.data, c)]
    /\ dmStage' = "inferred"
    /\ UNCHANGED <<dmInput, dmResult>>
    /\ UNCHANGED otherThanData

NextData == ParseFile \/ LoadSampleData \/ InferColumnTypes

SpecData == InitData /\ [][NextData]_vars

-----------------------------------------------------------------------------
(* C1, C2 *)

\* every row has a value in the column, and the value satisfies P
EveryValue(data, column, P(_)) ==
    /\ Len(data) > 0
    /\ \A i \in 1..Len(data) : column \in DOMAIN data[i] /\ P(data[i][column])

\* the value is a finite number, or text that reads in full as one
ParsesAsFiniteNumber(v) ==
    \/ IsFinite(v)
    \/ /\ v.t = "string"
       /\ StrDecimalLiteral(trim(v.s)).ok
       /\ IsFinite(StrDecimalLiteral(trim(v.s)).v)

\* the value is a date, or text of one of the three date shapes
MatchesDatePattern(v) == v.t = "date" \/ (v.t = "string" /\ isDate(v.s))

\* C1: a column whose every value parses as a finite number is inferred
\* quantitative, whatever produced the dataset.
C1_NumericIsQuantitative ==
    dmStage = "inferred" =>
        \A c \in DOMAIN dmTypes :
            EveryValue(dmResult.data, c, ParsesAsFiniteNumber) => dmTypes[c] = "quantitative"

\* C2: a column whose every value matches a recognized date pattern is
\* inferred temporal, whatever produced the dataset.
C2_DatesAreTemporal ==
    dmStage = "inferred" =>
        \A c \in DOMAIN dmTypes :
            EveryValue(dmResult.data, c, MatchesDatePattern) => dmTypes[c] = "temporal"

-----------------------------------------------------------------------------
(* C7 *)

IsGeneratedCsv(input) ==
    /\ input.kind = "file"
    /\ input.file.name = "data.csv"
    /\ Len(input.file.rows) > 0

WellFormed(file) == \A i \in 1..Len(file.rows) : Len(file.rows[i]) = Len(file.header)

ColumnIndex(header, h) == CHOOSE k \in 1..Len(header) : header[k] = h

\* C7: parseCSV on a header line and well-formed data lines returns one row
\* per data line, in input order, keyed by exactly the header names, each
\* cell converted by parseValue; the scenario "name,value\nA,30\nB,80\n"
\* gives [{name:'A',value:30},{name:'B',value:80}] with value quantitative
\* and name nominal.
C7_ParseCSV ==
    /\ (dmStage \in {"loaded", "failed", "inferred"}
          /\ IsGeneratedCsv(dmInput) /\ WellFormed(dmInput.file)) =>
           LET f == dmInput.file
           IN  /\ dmResult.ok
               /\ Len(dmResult.data) = Len(f.rows)
               /\ \A i \in 1..Len(f.rows) :
                     /\ DOMAIN dmResult.data[i] = {f.header[k] : k \in 1..Len(f.header)}
                     /\ \A h \in DOMAIN dmResult.data[i] :
                           dmResult.data[i][h]
                             = parseValue(Cell(f.rows[i][ColumnIndex(f.header, h)]))
    /\ (dmStage \in {"loaded", "failed", "inferred"}
          /\ dmInput.kind = "file" /\ dmInput.file.name = "scenario.csv") =>
           /\ dmResult.ok
           /\ dmResult.data = <<[name |-> Str("A"), value |-> Num(30, 0)],
                                [name |-> Str("B"), value |-> Num(80, 0)]>>
           /\ dmStage = "inferred" =>
                 dmTypes = [name |-> "nominal", value |-> "quantitative"]

C7_Witness ==
    /\ dmStage = "inferred"
    /\ dmInput.kind = "file"
    /\ dmInput.file.content = ScenarioCsv
    /\ dmInput.file.name = "scenario.csv"
    /\ dmTypes = [name |-> "nominal", value |-> "quantitative"]

-----------------------------------------------------------------------------
(* C10 *)

\* C10: in a dataset that was loaded successfully, all rows share the same
\* set of column names.
C10_UniformRows ==
    dmStage \in {"loaded", "inferred"} =>
        \A i, j \in 1..Len(dmResult.data) :
            DOMAIN dmResult.data[i] = DOMAIN dmResult.data[j]

-----------------------------------------------------------------------------
(* SpecBuild: validateMapping, buildSpec and buildFullSpec applied to calls  *)

ColumnTypes == {"quantitative", "nominal", "ordinal", "temporal"}
DropZones == {"x", "y", "color", "size", "detail", "opacity"}
ChartTypes == {"bar", "scatter", "line", "area", "histogram", "boxplot", "pie"}

ScenarioData ==
    <<[name |-> Str("A"), value |-> Num(30, 0)], [name |-> Str("B"), value |-> Num(80, 0)]>>

BuildData == {<<>>, ScenarioData, <<[name |-> Str("A"), value |-> Null]>>}

BuildMappings ==
    {[x |-> mx, y |-> my, color |-> mc, size |-> ms] :
        mx \in {NullMapping, Mapping("name", "nominal"), Mapping("value", "quantitative"),
                Mapping("order_date", "temporal")},
        my \in {NullMapping, Mapping("value", "quantitative"), Mapping("name", "nominal")},
        mc \in {NullMapping, Mapping("name", "nominal"), Mapping("sepalLength", "quantitative"),
                Mapping("level", "ordinal")},
        ms \in {NullMapping, Mapping("value", "quantitative"),
                Mapping("sepal_length", "quantitative")}}
    \cup {[x |-> [field |-> "name", type |-> "nominal"],
           y |-> [field |-> "value", type |-> "quantitative"],
           color |-> NullMapping, detail |-> NullMapping, opacity |-> NullMapping]}

BuildConfigs ==
    {[title |-> "", width |-> Num(600, 0), height |-> Num(400, 0)],
     [title |-> "Sales", width |-> Num(800, 0), height |-> Num(300, 0)],
     [title |-> "", width |-> NaN, height |-> Num(0, 0)]}

ClockReadings == {0, 1500}
IdSuffixes == {"k3j9x0q1z", "7"}

InitBuild ==
    /\ RestButBuild
    /\ bStage = "input"
    /\ bResp = [kind |-> "none"]
    /\ \/ \E e \in DropZones, c \in {"name", "value"}, t \in ColumnTypes :
              bReq = [kind |-> "validate", encoding |-> e, dragData |-> [column |-> c, type |-> t]]
       \/ \E d \in BuildData, ct \in ChartTypes, m \in BuildMappings, cfg \in BuildConfigs :
              bReq = [kind |-> "build",
                      args |-> [data |-> d, chartType |-> ct, mappings |-> m, config |-> cfg]]

\* DragDropManager.validateMapping(encoding, dragData)
ValidateMapping ==
    /\ bStage = "input"
    /\ bReq.kind = "validate"
    /\ bResp' = [kind |-> "decision", accept |-> validateMapping(bReq.encoding, bReq.dragData)]
    /\ bStage' = "validated"
    /\ UNCHANGED bReq
    /\ UNCHANGED otherThanBuild

\* SpecBuilder.buildSpec({data, chartType, mappings, config})
BuildSpec ==
    /\ bStage = "input"
    /\ bReq.kind = "build"
    /\ bResp' = buildSpec(bReq.args)
    /\ bStage' = "built"
    /\ UNCHANGED bReq
    /\ UNCHANGED otherThanBuild

\* SpecBuilder.buildFullSpec({data, chartType, mappings, config})
BuildFullSpec ==
    /\ bStage = "input"
    /\ bReq.kind = "build"
    /\ \E now \in ClockReadings, suffix \in IdSuffixes :
           bResp' = buildFullSpec(bReq.args, now, suffix)
    /\ bStage' = "builtFull"
    /\ UNCHANGED bReq
    /\ UNCHANGED otherThanBuild

NextBuild == ValidateMapping \/ BuildSpec \/ BuildFullSpec

SpecBuild == InitBuild /\ [][NextBuild]_vars

\* the Vega-Lite specification a successful build holds
VegaSpecOf(resp, stage) == IF stage = "builtFull" THEN resp.spec.vegaLiteSpec ELSE resp.spec

-----------------------------------------------------------------------------
(* C3 *)

\* C3: for x, color and size the validator accepts exactly the types of the
\* compatibility table (x: all four; color: nominal, ordinal, quantitative;
\* size: quantitative only); a channel absent from the table is rejected.
C3_CompatibilityTable ==
    bStage = "validated" =>
        LET e == bReq.encoding
            t == bReq.dragData.type
        IN  /\ e = "x" => bResp.accept
            /\ e = "color" => (bResp.accept <=> t \in {"nominal", "ordinal", "quantitative"})
            /\ e = "size" => (bResp.accept <=> t = "quantitative")
            /\ e \notin {"x", "y", "color", "size"} => ~bResp.accept

C3_Witness ==
    /\ bStage = "validated"
    /\ bReq.encoding = "size"
    /\ bReq.dragData.type = "nominal"
    /\ ~bResp.accept

-----------------------------------------------------------------------------
(* C4 *)

\* C4: a nominal or ordinal column is accepted on y (permissive y-rule) and
\* rejected on size.
C4_PermissiveY ==
    (bStage = "validated" /\ bReq.dragData.type \in {"nominal", "ordinal"}) =>
        /\ bReq.encoding = "y" => bResp.accept
        /\ bReq.encoding = "size" => ~bResp.accept

-----------------------------------------------------------------------------
(* C5 *)

HasColumn(m) == IsMapped(m) /\ Prop(m, "column").def /\ Prop(m, "type").def

\* C5: for a non-empty dataset, any chart type and mappings with x on colA
\* and y on colB, the specification built has encoding.x.field = colA and
\* encoding.y.field = colB, with the mapped types.
C5_EncodingFields ==
    (/\ bStage \in {"built", "builtFull"}
     /\ Len(bReq.args.data) > 0
     /\ HasColumn(Channel(bReq.args.mappings, "x"))
     /\ HasColumn(Channel(bReq.args.mappings, "y"))) =>
        /\ bResp.ok
        /\ LET enc == VegaSpecOf(bResp, bStage).encoding
               m == bReq.args.mappings
           IN  /\ {"x", "y"} \subseteq DOMAIN enc
               /\ enc["x"].field = Cell(m.x.column)
               /\ enc["y"].field = Cell(m.y.column)
               /\ enc["x"].type = Cell(m.x.type)
               /\ enc["y"].type = Cell(m.y.type)

C5_Witness ==
    /\ bStage = "built"
    /\ bReq.args.chartType = "bar"
    /\ bReq.args.data = ScenarioData
    /\ bReq.args.mappings["x"] = Mapping("name", "nominal")
    /\ bReq.args.mappings["y"] = Mapping("value", "quantitative")
    /\ bResp.ok
    /\ bResp.spec.encoding["x"].field = Cell("name")
    /\ bResp.spec.encoding["y"].field = Cell("value")

-----------------------------------------------------------------------------
(* C6 *)

MarkTypeOf(chartType) ==
    CASE chartType = "bar" -> "bar"
      [] chartType = "scatter" -> "circle"
      [] chartType = "line" -> "line"
      [] chartType = "area" -> "area"
      [] chartType = "histogram" -> "bar"
      [] chartType = "boxplot" -> "boxplot"

\* C6: every supported chart type gets its mark (bar, circle, line, area,
\* bar, boxplot) with tooltip enabled, scatter marks with a default size; a
\* full specification for scatter has vegaLiteSpec.mark of type circle with
\* tooltip.
C6_Marks ==
    (/\ bStage \in {"built", "builtFull"}
     /\ bResp.ok
     /\ bReq.args.chartType \in {"bar", "scatter", "line", "area", "histogram", "boxplot"}) =>
        LET mark == VegaSpecOf(bResp, bStage).mark
        IN  /\ mark.type = MarkTypeOf(bReq.args.chartType)
            /\ mark.tooltip = TRUE
            /\ bReq.args.chartType = "scatter" => ("size" \in DOMAIN mark /\ mark.size = 60)

C6_Witness ==
    /\ bStage = "builtFull"
    /\ bReq.args.chartType = "scatter"
    /\ bReq.args.mappings["x"] = Mapping("value", "quantitative")
    /\ bReq.args.mappings["y"] = Mapping("value", "quantitative")
    /\ bResp.ok
    /\ bResp.spec.vegaLiteSpec.mark.type = "circle"
    /\ bResp.spec.vegaLiteSpec.mark.tooltip = TRUE

-----------------------------------------------------------------------------
(* C17 *)

\* every populated mapping of the call is a {column, type} object
MappingsWellFormed(mappings) ==
    \A c \in DOMAIN mappings : IsMapped(mappings[c]) => HasColumn(mappings[c])

\* C17: buildFullSpec returns an object whose vegaLiteSpec is buildSpec of
\* the same inputs, whose chart.type is the chart type given, whose
\* interactions are {tooltip: true, zoom: false, brush: false, click: 'none'},
\* with a generated id and a creation timestamp; chart.encoding has an entry
\* (field, type, title) for exactly the channels whose mapping is non-null.
C17_FullSpec ==
    (bStage = "builtFull" /\ MappingsWellFormed(bReq.args.mappings)) =>
        /\ bResp.ok
        /\ LET full == bResp.spec
               m == bReq.args.mappings
           IN  /\ full.vegaLiteSpec = buildSpec(bReq.args).spec
               /\ full.chart.type = bReq.args.chartType
               /\ full.interactions =
                      [tooltip |-> TRUE, zoom |-> FALSE, brush |-> FALSE, click |-> "none"]
               /\ \E now \in ClockReadings, suffix \in IdSuffixes :
                      /\ full.id = "chart_" \o NatToString(now) \o "_" \o suffix
                      /\ full.metadata.created = toISOString(now)
               /\ DOMAIN full.chart.encoding = {c \in DOMAIN m : m[c] # NullMapping}
               /\ \A c \in DOMAIN full.chart.encoding :
                      /\ DOMAIN full.chart.encoding[c] = {"field", "type", "title"}
                      /\ full.chart.encoding[c].field = Cell(m[c].column)
                      /\ full.chart.encoding[c].type = Cell(m[c].type)

C17_Witness ==
    /\ bStage = "builtFull"
    /\ bReq.args.mappings["x"] = Mapping("name", "nominal")
    /\ bReq.args.mappings["y"] = Mapping("value", "quantitative")
    /\ bReq.args.mappings["color"] = Mapping("level", "ordinal")
    /\ bReq.args.mappings["size"] = NullMapping
    /\ bResp.ok
    /\ DOMAIN bResp.spec.chart.encoding = {"x", "y", "color"}
    /\ bResp.spec.id = "chart_1500_k3j9x0q1z"

-----------------------------------------------------------------------------
(* C19 *)

\* the Title-Case form of a snake_case or camelCase name: words start after
\* an underscore or at a capital, each word capitalised, joined by one space
RECURSIVE TitleCaseFrom(_, _)
TitleCaseFrom(s, wordStart) ==
    IF s = "" THEN ""
    ELSE LET c == At(s, 1)
             rest == SubSeq(s, 2, Len(s))
         IN  IF c = "_" THEN " " \o TitleCaseFrom(rest, TRUE)
             ELSE IF IsUpper(c)
                  THEN (IF wordStart THEN "" ELSE " ") \o c \o TitleCaseFrom(rest, FALSE)
             ELSE (IF wordStart THEN UpperChar(c) ELSE c) \o TitleCaseFrom(rest, FALSE)

TitleCase(s) == trim(TitleCaseFrom(s, TRUE))

-----------------------------------------------------------------------------
(* SpecLine: parseCSVLine applied to lines of at most MaxLineLen characters  *)

LineAlphabet == {"a", ",", "\"", "\t"}
Delimiters == {",", "\t"}

RECURSIVE LinesUpTo(_)
LinesUpTo(k) ==
    IF k = 0 THEN {""}
    ELSE LET shorter == LinesUpTo(k - 1)
         IN  shorter \cup {s \o c : s \in {t \in shorter : Len(t) = k - 1}, c \in LineAlphabet}

InitLine ==
    /\ RestButLine
    /\ lnStage = "input"
    /\ lnFields = <<>>
    /\ lnLine \in LinesUpTo(MaxLineLen)
    /\ lnDelimiter \in Delimiters

\* DataManager.parseCSVLine(line, delimiter)
ParseCSVLine ==
    /\ lnStage = "input"
    /\ lnFields' = parseCSVLine(lnLine, lnDelimiter)
    /\ lnStage' = "parsed"
    /\ UNCHANGED <<lnLine, lnDelimiter>>
    /\ UNCHANGED otherThanLine

NextLine == ParseCSVLine

SpecLine == InitLine /\ [][NextLine]_vars

-----------------------------------------------------------------------------
(* C18 *)

\* the positions of the double quotes of the line
QuotePositions(line) == {i \in 1..Len(line) : At(line, i) = "\""}

\* a position lies outside double quotes when an even number of quote
\* characters precede it
OutsideQuotes(line, i) == Cardinality({j \in QuotePositions(line) : j < i}) % 2 = 0

UnquotedDelimiters(line, delimiter) ==
    {i \in 1..Len(line) : At(line, i) = delimiter /\ OutsideQuotes(line, i)}

\* the line is one quoted field with one doubled quote inside: "a""b"
IsQuotedWithEscape(line, k) ==
    /\ 1 < k
    /\ k + 1 < Len(line)
    /\ QuotePositions(line) = {1, k, k + 1, Len(line)}

\* C18: parseCSVLine splits only at delimiters outside double quotes, so the
\* number of fields is one plus the number of unquoted delimiters and a
\* quoted field that holds the delimiter stays one field; inside a quoted
\* field the sequence "" yields a single " character.
C18_QuotedFields ==
    lnStage = "parsed" =>
        /\ Len(lnFields) = 1 + Cardinality(UnquotedDelimiters(lnLine, lnDelimiter))
        /\ \A k \in 1..Len(lnLine) :
               IsQuotedWithEscape(lnLine, k) =>
                   lnFields = <<trim(SubSeq(lnLine, 2, k - 1) \o "\""
                                     \o SubSeq(lnLine, k + 2, Len(lnLine) - 1))>>

C18_Witness ==
    /\ lnStage = "parsed"
    /\ lnLine = "\"a\"\",\""
    /\ lnDelimiter = ","
    /\ lnFields = <<"a\",">>

-----------------------------------------------------------------------------
(* SpecInfer: inferColumnType applied to columns of strings                  *)

InferWords == <<"low", "medium", "high", "Low", "abc", "abcd">>

\* the column "level" of a dataset whose rows hold the values given
ColumnOf(values) == [i \in 1..Len(values) |-> [level |-> Str(values[i])]]

\* w repeated n times
Repeat(w, n) == [i \in 1..n |-> w]

\* InferWords[k] repeated counts[k] times, for every k from k on
RECURSIVE Repeats(_, _)
Repeats(counts, k) ==
    IF k > Len(InferWords) THEN <<>>
    ELSE Repeat(InferWords[k], counts[k]) \o Repeats(counts, k + 1)

\* three values each of the distinct words item1 .. item<k>
RECURSIVE ManyDistinct(_)
ManyDistinct(k) ==
    IF k = 0 THEN <<>>
    ELSE ManyDistinct(k - 1) \o Repeat("item" \o NatToString(k), 3)

InitInfer ==
    /\ RestButInfer
    /\ infStage = "input"
    /\ infType = ""
    /\ \/ \E counts \in [1..Len(InferWords) -> 0..MaxRepeat] : infValues = Repeats(counts, 1)
       \/ \E k \in {19, 20} : infValues = ManyDistinct(k)

\* DataManager.inferColumnType(data, column)
InferColumnType ==
    /\ infStage = "input"
    /\ infType' = inferColumnType(ColumnOf(infValues), "level")
    /\ infStage' = "inferred"
    /\ UNCHANGED infValues
    /\ UNCHANGED otherThanInfer

NextInfer == InferColumnType

SpecInfer == InitInfer /\ [][NextInfer]_vars

-----------------------------------------------------------------------------
(* C20 *)

DistinctOf(values) == {values[i] : i \in 1..Len(values)}

\* the distinct values, lower-cased, are exactly one ordinal vocabulary
MatchesVocabulary(values) ==
    \E k \in 1..Len(ordinalPatterns) :
        {toLowerCase(v) : v \in DistinctOf(values)} = ordinalPatterns[k]

\* C20: for an all-string column with fewer distinct values than half the
\* values and fewer than 20, the type is ordinal when the distinct values,
\* lower-cased, are exactly one ordinal vocabulary, else nominal when every
\* distinct value has at most 3 characters, else ordinal; when the
\* distinct-count condition fails the type is nominal.
C20_StringColumns ==
    infStage = "inferred" =>
        LET distinct == DistinctOf(infValues)
        IN  IF 2 * Cardinality(distinct) < Len(infValues) /\ Cardinality(distinct) < 20
            THEN IF MatchesVocabulary(infValues) THEN infType = "ordinal"
                 ELSE IF \A v \in distinct : Len(v) <= 3 THEN infType = "nominal"
                 ELSE infType = "ordinal"
            ELSE infType = "nominal"

C20_Witness ==
    /\ infStage = "inferred"
    /\ DistinctOf(infValues) = {"low", "Low", "medium", "high"}
    /\ Len(infValues) = 9
    /\ infType = "ordinal"

-----------------------------------------------------------------------------
(* SpecSandbox: the code sandboxes.  One page is open: D3Sandbox with a      *)
(* textarea (part_006), D3Sandbox with a textarea and keyboard shortcuts     *)
(* (part_004), or D3MonacoSandbox (part_003).  A pending timeout is the time *)
(* left until it is due; time passes for all of them together, never beyond  *)
(* the one due next, and a timeout fires when nothing is left.               *)

SandboxVariants == {"textarea", "textareaKeys", "monaco"}

DebounceDelayTextarea == 500
DebounceDelayMonaco == 1000
StatusResetDelay == 3000

DebounceDelay(variant) ==
    IF variant = "monaco" THEN DebounceDelayMonaco ELSE DebounceDelayTextarea

\* the text the status falls back to
ReadyText(variant) == IF variant = "monaco" THEN "Monaco Editor Ready" ELSE "Ready"

\* stand-ins for the code of two templates
SandboxTemplates == [empty |-> "E", bars |-> "B"]

\* new Function('d3', code) / func(d3) throws on this code
CodeThrows(code) == code # "" /\ At(code, Len(code)) = "("

\* clearTimeout(handle): the timeout the handle names is no longer pending
ClearTimeout(timers, handle) ==
    IF \E i \in 1..Len(timers) : timers[i] = handle
    THEN LET i == CHOOSE k \in 1..Len(timers) : timers[k] = handle
         IN  SubSeq(timers, 1, i - 1) \o SubSeq(timers, i + 1, Len(timers))
    ELSE timers

\* a plausible slip: the earlier timeout is not cleared
debouncePreviewNoClear(timers, handle, variant) ==
    [timers |-> Append(timers, DebounceDelay(variant)),
     handle |-> DebounceDelay(variant)]

\* debouncePreview(): [timers, handle] afterwards
debouncePreview(timers, handle, variant) ==
    [timers |-> Append(ClearTimeout(timers, handle), DebounceDelay(variant)),
     handle |-> DebounceDelay(variant)]

\* setStatus(message): the text, and one more reset pending
SetSandboxStatus(message) ==
    /\ sbStatus' = message
    /\ sbStatusTimers' = sbStatusTimers \cup {StatusResetDelay}

\* runCode(), started by the debounce timeout or by the user
RunCode(by) ==
    /\ sbPreview' = IF CodeThrows(sbCode) THEN "" ELSE sbCode
    /\ sbError' = CodeThrows(sbCode)
    /\ SetSandboxStatus(IF CodeThrows(sbCode) THEN "Error in code"
                        ELSE "Code executed successfully")
    /\ sbRun' = [by |-> by, code |-> sbCode,
                 timerRuns |-> IF by = "timer" THEN sbRun.timerRuns + 1
                               ELSE sbRun.timerRuns]

\* loadTemplate(templateId): in the Monaco sandbox setValue raises the content
\* change event, whose listener calls debouncePreview before loadTemplate does
LoadTemplateInto(templateId, timers, handle) ==
    LET first == IF sbVariant = "monaco"
                 THEN debouncePreview(timers, handle, sbVariant)
                 ELSE [timers |-> timers, handle |-> handle]
    IN  debouncePreview(first.timers, first.handle, sbVariant)

\* the constructor: setupEventListeners (debouncePreview), loadTemplate('empty'),
\* setStatus('... ready!')
InitSandbox ==
    /\ RestButSandbox
    /\ sbVariant \in SandboxVariants
    /\ sbCode = SandboxTemplates["empty"]
    /\ sbTimers = <<DebounceDelay(sbVariant)>>
    /\ sbDebounceTimer = DebounceDelay(sbVariant)
    /\ sbStatusTimers = {StatusResetDelay}
    /\ sbStatus = IF sbVariant = "monaco" THEN "Monaco Editor ready!"
                  ELSE "Sandbox ready!"
    /\ sbPreview = ""
    /\ sbError = FALSE
    /\ sbEdit = [age |-> 0, code |-> SandboxTemplates["empty"]]
    /\ sbRun = [by |-> "none", code |-> "", timerRuns |-> 0]

\* the characters typed: a letter, and one that leaves the code unfinished
TypedChars == {"a", "("}

\* the user acts only while fewer than MaxStatusResets status resets are pending
UserActs ==
    sbVariant \in SandboxVariants /\ Cardinality(sbStatusTimers) < MaxStatusResets

\* an edit of the content was made now
Edited(code) ==
    /\ sbCode' = code
    /\ sbEdit' = [age |-> 0, code |-> code]
    /\ sbRun' = [sbRun EXCEPT !.timerRuns = 0]

\* the 'input' event of the textarea, the content change event of Monaco
TypeInEditor ==
    /\ UserActs
    /\ Len(sbCode) < MaxCodeLen
    /\ \E c \in TypedChars : Edited(sbCode \o c)
    /\ LET d == debouncePreview(sbTimers, sbDebounceTimer, sbVariant)
       IN  sbTimers' = d.timers /\ sbDebounceTimer' = d.handle
    /\ UNCHANGED <<sbVariant, sbStatusTimers, sbStatus, sbPreview, sbError>>
    /\ UNCHANGED otherThanSandbox

\* handleKeydown with the Tab key: the default is prevented and the value is
\* assigned by the handler, so no 'input' event follows
TabKey ==
    /\ UserActs
    /\ sbVariant = "textareaKeys"
    /\ Len(sbCode) + 2 <= MaxCodeLen
    /\ Edited(sbCode \o "  ")
    /\ UNCHANGED <<sbVariant, sbTimers, sbDebounceTimer, sbStatusTimers, sbStatus,
                   sbPreview, sbError>>
    /\ UNCHANGED otherThanSandbox

\* selectTemplate / resetToTemplate: loadTemplate(templateId)
SelectTemplate ==
    /\ UserActs
    /\ \E templateId \in DOMAIN SandboxTemplates :
          /\ Edited(SandboxTemplates[templateId])
          /\ LET d == LoadTemplateInto(templateId, sbTimers, sbDebounceTimer)
             IN  sbTimers' = d.timers /\ sbDebounceTimer' = d.handle
    /\ SetSandboxStatus("Loaded template")
    /\ UNCHANGED <<sbVariant, sbPreview, sbError>>
    /\ UNCHANGED otherThanSandbox

\* the Run button, and Ctrl+Enter in handleKeydown
RunButton ==
    /\ UserActs
    /\ RunCode("user")
    /\ UNCHANGED <<sbVariant, sbCode, sbTimers, sbDebounceTimer, sbEdit>>
    /\ UNCHANGED otherThanSandbox

\* the debounce timeout comes due: runCode()
DebounceFires ==
    /\ sbTimers # <<>>
    /\ Head(sbTimers) = 0
    /\ sbTimers' = Tail(sbTimers)
    /\ sbDebounceTimer' = IF Len(sbTimers) = 1 THEN -1 ELSE sbDebounceTimer
    /\ RunCode("timer")
    /\ UNCHANGED <<sbVariant, sbCode, sbEdit>>
    /\ UNCHANGED otherThanSandbox

\* a status reset comes due
StatusResetFires ==
    /\ 0 \in sbStatusTimers
    /\ sbStatusTimers' = sbStatusTimers \ {0}
    /\ sbStatus' = ReadyText(sbVariant)
    /\ UNCHANGED <<sbVariant, sbCode, sbTimers, sbDebounceTimer, sbPreview, sbError,
                   sbEdit, sbRun>>
    /\ UNCHANGED otherThanSandbox

\* the Clear button
ClearPreview ==
    /\ sbVariant \in SandboxVariants
    /\ sbPreview # ""
    /\ sbPreview' = ""
    /\ UNCHANGED <<sbVariant, sbCode, sbTimers, sbDebounceTimer, sbStatusTimers,
                   sbStatus, sbError, sbEdit, sbRun>>
    /\ UNCHANGED otherThanSandbox

\* saveCode(): the Save button, and Ctrl+S in handleKeydown
SaveCode ==
    /\ UserActs
    /\ sbVariant \in {"textareaKeys", "monaco"}
    /\ SetSandboxStatus("Code saved!")
    /\ UNCHANGED <<sbVariant, sbCode, sbTimers, sbDebounceTimer, sbPreview, sbError,
                   sbEdit, sbRun>>
    /\ UNCHANGED otherThanSandbox

\* the time left of everything pending
SandboxPending == {sbTimers[i] : i \in 1..Len(sbTimers)} \cup sbStatusTimers

\* the gap between two events of the user, shorter than either debounce delay
UserGap == 250

SmallestOf(S) == CHOOSE m \in S : \A n \in S : m <= n

\* the next moment something happens: the user's next event, or a timeout
\* that is due before it
TimeStep == SmallestOf(SandboxPending \cup {UserGap})

Elapse(timers, d) == [i \in 1..Len(timers) |-> timers[i] - d]

\* time passes, up to the next due time at most
TimePasses ==
    /\ sbVariant \in SandboxVariants
    /\ TimeStep > 0
    /\ sbTimers' = Elapse(sbTimers, TimeStep)
    /\ sbDebounceTimer' = IF sbDebounceTimer = -1 THEN -1
                          ELSE sbDebounceTimer - TimeStep
    /\ sbStatusTimers' = {left - TimeStep : left \in sbStatusTimers}
    /\ sbEdit' = [sbEdit EXCEPT !.age =
                     IF @ + TimeStep > DebounceDelay(sbVariant)
                     THEN DebounceDelay(sbVariant) ELSE @ + TimeStep]
    /\ UNCHANGED <<sbVariant, sbCode, sbStatus, sbPreview, sbError, sbRun>>
    /\ UNCHANGED otherThanSandbox

NextSandbox ==
    \/ TypeInEditor
    \/ TabKey
    \/ SelectTemplate
    \/ RunButton
    \/ DebounceFires
    \/ StatusResetFires
    \/ ClearPreview
    \/ SaveCode
    \/ TimePasses

SpecSandbox == InitSandbox /\ [][NextSandbox]_vars

\* C16: in each sandbox at most one debounce timer is pending; an edit that no
\* timer run has followed yet has a timer pending, due one debounce delay after
\* it (so the burst it ends is followed by a run); and since the last edit at
\* most one timer run happened, which read that edit's content.
C16_Debounce ==
    sbVariant \in SandboxVariants =>
        /\ Len(sbTimers) <= 1
        /\ sbRun.timerRuns = 0 =>
              sbTimers = <<DebounceDelay(sbVariant) - sbEdit.age>>
        /\ sbRun.timerRuns <= 1
        /\ (sbRun.timerRuns = 1 /\ sbRun.by = "timer") => sbRun.code = sbEdit.code

\* the part of C16 that holds in all three sandboxes: never two debounce timers
\* pending
C16_OneTimer == Len(sbTimers) <= 1

-----------------------------------------------------------------------------
(* SpecPy: the Python playground.  setupPyodideAsync runs in the background  *)
(* from one await to the next: the script load, loadPyodide, the three       *)
(* package installs.  How long a load takes is up to the network, so a       *)
(* pending timeout or a poller tick may come at any moment.                  *)

LoadingText == "Loading Python runtime from CDN..."
InitializingText == "Initializing Python environment..."
ReadyPyText == "Python environment ready!"
FailedText == "Python environment failed to load - Editor still works for syntax"

corePackages == <<"numpy", "pandas", "matplotlib">>

InstallingText(i) == "Installing " \o corePackages[i]

PackageStages == <<"pkg1", "pkg2", "pkg3">>

\* stand-ins for the code of two templates
PyTemplates == [empty |-> "print(1)", hello |-> "print(2)"]

\* what the user leaves in the editor: nothing, blanks, code that runs, code
\* that raises
PyCodes == {"", " ", "x=1", "1/0"}

\* the user code raises a Python exception
PythonRaises(code) == code = "1/0"

\* the user runs code only while fewer than MaxRuns executions happened
UserRuns == pyExecuted < MaxRuns

PySetStatus(message, by) == pyStatus' = message /\ pyStatusBy' = by

\* the catch block of setupPyodideAsync
SetupFails ==
    /\ pyStage' = "failed"
    /\ PySetStatus(FailedText, "setup")

\* the state after init(): the editor holds the empty template, and
\* setupPyodideAsync waits for the script
InitPy ==
    /\ RestButPy
    /\ pyStage = "script"
    /\ pyScriptTimeout = TRUE
    /\ pyInitTimeout = FALSE
    /\ pyLoadPyodide = "none"
    /\ pyodide = FALSE
    /\ pyStatus = LoadingText
    /\ pyStatusBy = "setup"
    /\ pyCode = PyTemplates["empty"]
    /\ pyPollers = 0
    /\ pyExecuted = 0
    /\ pyLastRun = [by |-> "none", code |-> ""]
    /\ pyOutput = ""

\* script.onload: the timeout is cleared, loadPyodide starts under its timeout
ScriptLoads ==
    /\ pyStage = "script"
    /\ pyScriptTimeout' = FALSE
    /\ pyStage' = "init"
    /\ PySetStatus(InitializingText, "setup")
    /\ pyInitTimeout' = TRUE
    /\ pyLoadPyodide' = "running"
    /\ UNCHANGED <<pyodide, pyCode, pyPollers, pyExecuted, pyLastRun, pyOutput>>
    /\ UNCHANGED otherThanPy

\* script.onerror
ScriptError ==
    /\ pyStage = "script"
    /\ pyScriptTimeout' = FALSE
    /\ SetupFails
    /\ UNCHANGED <<pyInitTimeout, pyLoadPyodide, pyodide, pyCode, pyPollers,
                   pyExecuted, pyLastRun, pyOutput>>
    /\ UNCHANGED otherThanPy

\* the 30 s timeout of the script load
ScriptTimeout ==
    /\ pyStage = "script"
    /\ pyScriptTimeout
    /\ pyScriptTimeout' = FALSE
    /\ SetupFails
    /\ UNCHANGED <<pyInitTimeout, pyLoadPyodide, pyodide, pyCode, pyPollers,
                   pyExecuted, pyLastRun, pyOutput>>
    /\ UNCHANGED otherThanPy

\* loadPyodide resolves: this.pyodide is assigned and the timeout cleared; the
\* resolve() that follows has an effect only if the timeout did not reject first
LoadPyodideResolves ==
    /\ pyLoadPyodide = "running"
    /\ pyLoadPyodide' = "done"
    /\ pyodide' = TRUE
    /\ pyInitTimeout' = FALSE
    /\ IF pyStage = "init"
       THEN pyStage' = "pkg1" /\ PySetStatus(InstallingText(1), "setup")
       ELSE UNCHANGED <<pyStage, pyStatus, pyStatusBy>>
    /\ UNCHANGED <<pyScriptTimeout, pyCode, pyPollers, pyExecuted, pyLastRun, pyOutput>>
    /\ UNCHANGED otherThanPy

\* loadPyodide rejects
LoadPyodideRejects ==
    /\ pyLoadPyodide = "running"
    /\ pyLoadPyodide' = "failed"
    /\ pyInitTimeout' = FALSE
    /\ IF pyStage = "init"
       THEN SetupFails
       ELSE UNCHANGED <<pyStage, pyStatus, pyStatusBy>>
    /\ UNCHANGED <<pyScriptTimeout, pyodide, pyCode, pyPollers, pyExecuted, pyLastRun,
                   pyOutput>>
    /\ UNCHANGED otherThanPy

\* the 60 s timeout of the initialization; loadPyodide goes on
InitTimeout ==
    /\ pyStage = "init"
    /\ pyInitTimeout
    /\ pyInitTimeout' = FALSE
    /\ SetupFails
    /\ UNCHANGED <<pyScriptTimeout, pyLoadPyodide, pyodide, pyCode, pyPollers,
                   pyExecuted, pyLastRun, pyOutput>>
    /\ UNCHANGED otherThanPy

\* loadPackage resolves: the next package, or after the last one the
\* configuration script, which may raise
PackageLoads ==
    /\ \E i \in 1..Len(corePackages) :
          /\ pyStage = PackageStages[i]
          /\ IF i < Len(corePackages)
             THEN pyStage' = PackageStages[i + 1]
                  /\ PySetStatus(InstallingText(i + 1), "setup")
             ELSE \E configured \in BOOLEAN :
                     IF configured
                     THEN pyStage' = "ready" /\ PySetStatus(ReadyPyText, "setup")
                     ELSE SetupFails
    /\ UNCHANGED <<pyScriptTimeout, pyInitTimeout, pyLoadPyodide, pyodide, pyCode,
                   pyPollers, pyExecuted, pyLastRun, pyOutput>>
    /\ UNCHANGED otherThanPy

\* loadPackage rejects
PackageFails ==
    /\ pyStage \in {PackageStages[i] : i \in 1..Len(corePackages)}
    /\ SetupFails
    /\ UNCHANGED <<pyScriptTimeout, pyInitTimeout, pyLoadPyodide, pyodide, pyCode,
                   pyPollers, pyExecuted, pyLastRun, pyOutput>>
    /\ UNCHANGED otherThanPy

\* a plausible slip: runPython returns while the runtime is not ready without
\* starting a poller
runPythonNoPoller(by, pollers) ==
    IF ~pyodide
    THEN /\ pyOutput' = "loading"
         /\ pyPollers' = pollers
         /\ UNCHANGED <<pyStatus, pyStatusBy, pyExecuted, pyLastRun>>
    ELSE IF trim(pyCode) = ""
    THEN /\ pyOutput' = "enter code"
         /\ pyPollers' = pollers
         /\ UNCHANGED <<pyStatus, pyStatusBy, pyExecuted, pyLastRun>>
    ELSE /\ pyPollers' = pollers
         /\ pyExecuted' = pyExecuted + 1
         /\ pyLastRun' = [by |-> by, code |-> pyCode]
         /\ pyOutput' = IF PythonRaises(pyCode) THEN "error" ELSE "output"
         /\ PySetStatus(IF PythonRaises(pyCode) THEN "Python execution failed"
                        ELSE "Python code executed successfully!", by)

\* runPython(), called by the user or by a poller, with the pollers left active
\* by the caller
runPython(by, pollers) ==
    IF ~pyodide
    THEN /\ pyOutput' = "loading"
         /\ pyPollers' = pollers + 1
         /\ UNCHANGED <<pyStatus, pyStatusBy, pyExecuted, pyLastRun>>
    ELSE IF trim(pyCode) = ""
    THEN /\ pyOutput' = "enter code"
         /\ pyPollers' = pollers
         /\ UNCHANGED <<pyStatus, pyStatusBy, pyExecuted, pyLastRun>>
    ELSE /\ pyPollers' = pollers
         /\ pyExecuted' = pyExecuted + 1
         /\ pyLastRun' = [by |-> by, code |-> pyCode]
         /\ pyOutput' = IF PythonRaises(pyCode) THEN "error" ELSE "output"
         /\ PySetStatus(IF PythonRaises(pyCode) THEN "Python execution failed"
                        ELSE "Python code executed successfully!", by)

\* the Run button
RunClick ==
    /\ pyStage # "off"
    /\ UserRuns
    /\ pyPollers < MaxPollers
    /\ runPython("user", pyPollers)
    /\ UNCHANGED <<pyStage, pyScriptTimeout, pyInitTimeout, pyLoadPyodide, pyodide, pyCode>>
    /\ UNCHANGED otherThanPy

\* a tick of a readiness poller: once this.pyodide is set it clears itself and
\* calls runPython
PollerTick ==
    /\ pyPollers > 0
    /\ IF pyodide
       THEN runPython("poller", pyPollers - 1)
       ELSE UNCHANGED <<pyPollers, pyStatus, pyStatusBy, pyExecuted, pyLastRun, pyOutput>>
    /\ UNCHANGED <<pyStage, pyScriptTimeout, pyInitTimeout, pyLoadPyodide, pyodide, pyCode>>
    /\ UNCHANGED otherThanPy

\* a template button, or Reset: loadTemplate(templateId)
LoadPyTemplate ==
    /\ pyStage # "off"
    /\ \E templateId \in DOMAIN PyTemplates : pyCode' = PyTemplates[templateId]
    /\ pyOutput' = ""
    /\ PySetStatus("Loaded template", "user")
    /\ UNCHANGED <<pyStage, pyScriptTimeout, pyInitTimeout, pyLoadPyodide, pyodide,
                   pyPollers, pyExecuted, pyLastRun>>
    /\ UNCHANGED otherThanPy

\* the user edits the code
EditPyCode ==
    /\ pyStage # "off"
    /\ \E code \in PyCodes : pyCode' = code /\ code # pyCode
    /\ UNCHANGED <<pyStage, pyScriptTimeout, pyInitTimeout, pyLoadPyodide, pyodide,
                   pyStatus, pyStatusBy, pyPollers, pyExecuted, pyLastRun, pyOutput>>
    /\ UNCHANGED otherThanPy

\* the Save button
SavePyCode ==
    /\ pyStage # "off"
    /\ PySetStatus("Code saved", "user")
    /\ UNCHANGED <<pyStage, pyScriptTimeout, pyInitTimeout, pyLoadPyodide, pyodide,
                   pyCode, pyPollers, pyExecuted, pyLastRun, pyOutput>>
    /\ UNCHANGED otherThanPy

NextPy ==
    \/ ScriptLoads
    \/ ScriptError
    \/ ScriptTimeout
    \/ LoadPyodideResolves
    \/ LoadPyodideRejects
    \/ InitTimeout
    \/ PackageLoads
    \/ PackageFails
    \/ RunClick
    \/ PollerTick
    \/ LoadPyTemplate
    \/ EditPyCode
    \/ SavePyCode

SpecPy == InitPy /\ [][NextPy]_vars

\* what the user does in the playground
UserActsPy == RunClick \/ LoadPyTemplate \/ EditPyCode \/ SavePyCode

\* C15: once a stage of the runtime load has failed the editor remains usable
\* (a template can be loaded and the code edited), and the failure message
\* stays in the status until the user does something that sets another one:
\* no timer replaces it.
C15_LoadFailure ==
    /\ [](pyStage = "failed" => ENABLED LoadPyTemplate /\ ENABLED EditPyCode)
    /\ [][(pyStage = "failed" /\ pyStatus = FailedText /\ pyStatus' # FailedText)
             => UserActsPy]_vars

\* the parts of C15 that hold: a failed load reports the failure message, and
\* the editor remains usable
C15_EditorUsable ==
    /\ [](pyStage = "failed" => ENABLED LoadPyTemplate /\ ENABLED EditPyCode)
    /\ [][(pyStage # "failed" /\ pyStage' = "failed") => pyStatus' = FailedText]_vars

\* the playground with its interval timers ticking: a poller that is active
\* gets its ticks
SpecPyLive == InitPy /\ [][NextPy]_vars /\ WF_vars(PollerTick)

\* C24: a Run click while the runtime is not ready executes nothing and starts
\* a poller; a tick that finds the runtime ready clears its poller and runs the
\* code the editor holds then; and once the runtime is ready every poller
\* eventually has made its attempt.
C24_Retry ==
    /\ [][(RunClick /\ ~pyodide) =>
             /\ pyExecuted' = pyExecuted
             /\ pyLastRun' = pyLastRun
             /\ pyPollers' = pyPollers + 1]_vars
    /\ [][(PollerTick /\ pyodide) =>
             /\ pyPollers' = pyPollers - 1
             /\ trim(pyCode) # "" =>
                   /\ pyExecuted' = pyExecuted + 1
                   /\ pyLastRun' = [by |-> "poller", code |-> pyCode]]_vars
    /\ (pyPollers > 0 /\ pyodide) ~> (pyPollers = 0)

\* a poller made its attempt and ran code the user wrote after the click
C24_Witness ==
    /\ pyLastRun = [by |-> "poller", code |-> "x=1"]
    /\ pyPollers = 0

\* C29: whatever the number of Run clicks while the runtime loads, at most one
\* readiness poller is active, and at most one execution is started by pollers.
C29_OnePoller == pyPollers <= 1

\* C30: after setupPyodideAsync has reported a failure this.pyodide is and
\* stays null and no user code is executed.
C30_NeverReady ==
    [][pyStage = "failed" => (~pyodide' /\ pyExecuted' = pyExecuted)]_vars

-----------------------------------------------------------------------------
(* SpecChart: the chart builders.  One page is open, ChartBuilder (v1, with  *)
(* the DragDropManager and the ChartRenderer) or ChartBuilderV2 (v2).  A     *)
(* handler runs to its end in one step; a file read, an embed call and a     *)
(* status reset complete in steps of their own, in any order.  The handlers  *)
(* are functions of the page's state s, a record of the variables.           *)

NoData == [loaded |-> FALSE, rows |-> <<>>]
DataOf(rows) == [loaded |-> TRUE, rows |-> rows]
NoSpec == [none |-> TRUE]

ChartState ==
    [data |-> currentData, mappings |-> currentMappings, chartType |-> currentChartType,
     config |-> chartConfig, columns |-> columnsList, preview |-> previewShown,
     dragged |-> draggedData, fields |-> fieldMappings, threads |-> threads,
     thread |-> currentThread, options |-> selectOptions, status |-> chStatus,
     resets |-> chResets, uploads |-> chUploads, renders |-> chRenders,
     container |-> chContainer, view |-> currentView, unhandled |-> chUnhandled,
     misused |-> chMisused,
     display |-> specDisplay]

\* the page's state becomes s
Becomes(s) ==
    /\ currentData' = s.data
    /\ currentMappings' = s.mappings
    /\ currentChartType' = s.chartType
    /\ chartConfig' = s.config
    /\ columnsList' = s.columns
    /\ previewShown' = s.preview
    /\ draggedData' = s.dragged
    /\ fieldMappings' = s.fields
    /\ threads' = s.threads
    /\ currentThread' = s.thread
    /\ selectOptions' = s.options
    /\ chStatus' = s.status
    /\ chResets' = s.resets
    /\ chUploads' = s.uploads
    /\ chRenders' = s.renders
    /\ chContainer' = s.container
    /\ chUnhandled' = s.unhandled
    /\ specDisplay' = s.display
    /\ currentView' = s.view
    /\ chMisused' = s.misused
    /\ UNCHANGED <<chPage, chPace>>
    /\ UNCHANGED otherThanChart

Placeholder(message) == [kind |-> "placeholder", message |-> message, spec |-> NoSpec]
ChartOf(spec) == [kind |-> "chart", message |-> "", spec |-> spec]
ErrorPanel(message) == [kind |-> "error", message |-> message, spec |-> NoSpec]
EmptyContainer == [kind |-> "empty", message |-> "", spec |-> NoSpec]

\* ChartBuilder.updateStatus(message, type): a reset is scheduled unless the
\* type is 'error'
updateStatus(s, message, type) ==
    [s EXCEPT !.status = [text |-> message, class |-> "status-" \o type],
              !.resets = IF type # "error" THEN @ + 1 ELSE @]

\* !this.currentData || !this.currentMappings.x || !this.currentMappings.y
Incomplete(data, mappings) ==
    ~data.loaded \/ ~IsMapped(mappings.x) \/ ~IsMapped(mappings.y)

\* the argument the orchestrator hands to the specification builder
SpecArgs(s) ==
    [data |-> s.data.rows, chartType |-> s.chartType, mappings |-> s.mappings,
     config |-> s.config]

\* the specification builder is called: remembered if it is without rows or
\* without x or y
BuilderCalled(s) ==
    [s EXCEPT !.misused = \/ @
                          \/ Len(s.data.rows) = 0
                          \/ ~IsMapped(s.mappings.x)
                          \/ ~IsMapped(s.mappings.y)]

\* updateSpecDisplay past its guard, on the 'vega' and the 'full' tab; built is
\* what the builder returns or throws
specShown(s, tabType, built) ==
    [BuilderCalled(s) EXCEPT
        !.display = IF built.ok THEN tabType
                    ELSE "Error generating specification: " \o built.error]

\* a plausible slip: the builder writes the default title into the
\* configuration it is handed
updateSpecDisplayDefaulting(s, tabType) ==
    IF Incomplete(s.data, s.mappings)
    THEN [s EXCEPT !.display = "Configure chart to see specification"]
    ELSE IF tabType \in {"vega", "full"}
    THEN [specShown(s, tabType, buildSpec(SpecArgs(s))) EXCEPT
             !.config.title = IF @ = "" THEN "Untitled" ELSE @]
    ELSE [s EXCEPT !.display = "preview"]

\* ChartBuilder.updateSpecDisplay(tabType); the display is the tab whose content
\* it shows.  buildFullSpec throws where its call of buildSpec does
updateSpecDisplay(s, tabType) ==
    IF Incomplete(s.data, s.mappings)
    THEN [s EXCEPT !.display = "Configure chart to see specification"]
    ELSE IF tabType \in {"vega", "full"}
    THEN specShown(s, tabType, buildSpec(SpecArgs(s)))
    ELSE [s EXCEPT !.display = "preview"]

\* a plausible slip: a new render drops the embed calls still in flight
renderCancelling(s, spec) ==
    [s EXCEPT !.container = EmptyContainer, !.renders = <<spec>>]

\* ChartRenderer.render(containerId, spec) up to its await: the container is
\* cleared and the embed call is in flight
render(s, spec) ==
    [s EXCEPT !.container = EmptyContainer, !.renders = Append(@, spec)]

\* the try block of updateChart; built is what buildSpec returns or throws
chartBuilt(s, built) ==
    IF built.ok THEN updateSpecDisplay(render(BuilderCalled(s), built.spec), "preview")
    ELSE updateStatus(BuilderCalled(s), "Error updating chart: " \o built.error, "error")

\* a plausible slip: the chart is rendered whatever is mapped
updateChartUnguarded(s) == chartBuilt(s, buildSpec(SpecArgs(s)))

\* ChartBuilder.updateChart()
updateChart(s) ==
    IF Incomplete(s.data, s.mappings)
    THEN updateSpecDisplay([s EXCEPT !.container = Placeholder("")], "preview")
    ELSE chartBuilt(s, buildSpec(SpecArgs(s)))

\* the try block of exportSpecification; built is what buildFullSpec returns
\* or throws
specExported(s, built) ==
    IF built.ok THEN updateStatus(BuilderCalled(s), "Chart specification exported", "info")
    ELSE updateStatus(BuilderCalled(s), "Error exporting: " \o built.error, "error")

\* ChartBuilder.exportSpecification()
exportSpecification(s) ==
    IF Incomplete(s.data, s.mappings)
    THEN updateStatus(s, "Cannot export: incomplete chart configuration", "error")
    ELSE specExported(s, buildSpec(SpecArgs(s)))

\* a plausible slip: the type is left out of the mapping stored
updateMappingUntyped(s, encoding, column, type) ==
    updateStatus(updateChart([s EXCEPT !.mappings[encoding] = [column |-> column]]),
                 "Mapped " \o column \o " to " \o encoding, "info")

\* ChartBuilder.updateMapping(encoding, column, type)
updateMapping(s, encoding, column, type) ==
    updateStatus(updateChart([s EXCEPT !.mappings[encoding] = Mapping(column, type)]),
                 "Mapped " \o column \o " to " \o encoding, "info")

\* ChartBuilder.removeMapping(encoding)
removeMapping(s, encoding) ==
    updateStatus(updateChart([s EXCEPT !.mappings[encoding] = NullMapping]),
                 "Removed " \o encoding \o " mapping", "info")

\* Object.keys(this.currentMappings), in the order of the constructor
MappingKeys == <<"x", "y", "color", "size">>

RECURSIVE RemoveAll(_, _)
RemoveAll(s, keys) ==
    IF Len(keys) = 0 THEN s ELSE RemoveAll(removeMapping(s, Head(keys)), Tail(keys))

\* ChartBuilder.clearMappings()
clearMappings(s) == RemoveAll(s, MappingKeys)

\* renderColumnList(data): an item per key of the first row, with the type
\* inferred
renderColumnList(rows) ==
    IF Len(rows) = 0 THEN {}
    ELSE {Mapping(c, inferColumnType(rows, c)) : c \in DOMAIN rows[1]}

\* a plausible slip: the mappings of the dataset before are kept
loadDataKeepingMappings(s, rows) ==
    updateChart([s EXCEPT !.data = DataOf(rows), !.preview = TRUE,
                          !.columns = renderColumnList(rows)])

\* ChartBuilder.loadData(data, sourceName)
loadData(s, rows) ==
    updateChart(clearMappings([s EXCEPT !.data = DataOf(rows), !.preview = TRUE,
                                        !.columns = renderColumnList(rows)]))

\* the files the user picks: two that load, and one per way of failing
ChartFiles ==
    {[name |-> "scenario.csv", content |-> ScenarioCsv, readable |-> TRUE,
      header |-> <<"name", "value">>],
     [name |-> "empty.json", content |-> JsonEmptyArray, readable |-> TRUE, header |-> <<>>],
     [name |-> "data.xml", content |-> ScenarioCsv, readable |-> TRUE, header |-> <<>>],
     [name |-> "broken.json", content |-> JsonBroken, readable |-> TRUE, header |-> <<>>],
     [name |-> "short.csv", content |-> "name,value", readable |-> TRUE, header |-> <<>>],
     [name |-> "notes.txt", content |-> "plain words", readable |-> TRUE, header |-> <<>>],
     [name |-> "locked.csv", content |-> ScenarioCsv, readable |-> FALSE, header |-> <<>>]}

ParseFailed(message) == [ok |-> FALSE, data |-> <<>>, error |-> message]

\* what parseFile(file) returns or throws for each of them, written out
ParsedChartFiles ==
    [file \in ChartFiles |->
        CASE file.name = "scenario.csv" ->
                 [ok |-> TRUE, error |-> "",
                  data |-> <<[name |-> Str("A"), value |-> Num(3, 1)],
                             [name |-> Str("B"), value |-> Num(8, 1)]>>]
          [] file.name = "empty.json" -> [ok |-> TRUE, error |-> "", data |-> <<>>]
          [] file.name = "data.xml" -> ParseFailed("Unsupported file format: xml")
          [] file.name = "broken.json" ->
                 ParseFailed("Invalid JSON format: Unexpected token in JSON")
          [] file.name = "short.csv" ->
                 ParseFailed("CSV file must have at least a header and one data row")
          [] file.name = "notes.txt" ->
                 ParseFailed("Could not detect file format. Please ensure it is CSV, TSV, or JSON.")
          [] file.name = "locked.csv" -> ParseFailed("Failed to read file")]

\* the table is parseFile's: it holds of every file of ChartFiles
ParsedAsParseFile == \A file \in ChartFiles : ParsedChartFiles[file] = parseFile(file)

\* a plausible slip: the dataset is taken over before the parse has succeeded
fileLoadedEagerly(s, file) ==
    LET result == ParsedChartFiles[file]
        taken == [s EXCEPT !.uploads = @ - 1, !.data = DataOf(result.data)]
    IN  IF result.ok
        THEN updateStatus(loadData(taken, result.data),
                          "Loaded " \o NatToString(Len(result.data)) \o " rows from "
                              \o file.name, "info")
        ELSE updateStatus(taken, "Error loading file: " \o result.error, "error")

\* ChartBuilder.handleFileUpload(file) from the end of the await on
fileLoaded(s, file) ==
    LET result == ParsedChartFiles[file]
        done == [s EXCEPT !.uploads = @ - 1]
    IN  IF result.ok
        THEN updateStatus(loadData(done, result.data),
                          "Loaded " \o NatToString(Len(result.data)) \o " rows from "
                              \o file.name, "info")
        ELSE updateStatus(done, "Error loading file: " \o result.error, "error")

\* Math.random() in the sample generator
SampleRandom == [k \in 1..RandPeriod |-> 5]

SampleButtons == {"sales"}

\* loadSampleData(sampleType) of each button
LoadedSamples == [sampleType \in SampleButtons |-> loadSampleData(sampleType, SampleRandom)]

\* ChartBuilder.loadSampleData(sampleType)
sampleLoaded(s, sampleType) ==
    LET result == LoadedSamples[sampleType]
        loading == updateStatus(s, "Loading sample data...", "info")
    IN  IF result.ok
        THEN updateStatus(loadData(loading, result.data),
                          "Loaded " \o NatToString(Len(result.data)) \o " rows of "
                              \o sampleType \o " data", "info")
        ELSE updateStatus(loading, "Error loading sample data: " \o result.error, "error")

\* the text of showMappingError
MappingErrorText(encoding, dragData) ==
    "Cannot map " \o dragData.type \o " column \"" \o dragData.column \o "\" to " \o encoding

\* a plausible slip: the drop is not validated
handleDropUnvalidated(s, encoding) ==
    IF ~IsMapped(s.dragged) THEN s
    ELSE updateMapping(s, encoding, s.dragged.column, s.dragged.type)

\* DragDropManager.handleDrop(e) on the zone of the encoding
handleDrop(s, encoding) ==
    IF ~IsMapped(s.dragged) THEN s
    ELSE IF ~validateMapping(encoding, s.dragged)
         THEN updateStatus(s, MappingErrorText(encoding, s.dragged), "error")
    ELSE updateMapping(s, encoding, s.dragged.column, s.dragged.type)

(* ChartBuilderV2 *)

FieldKeys == <<"x", "y", "color", "detail", "opacity">>

FieldMapping(field, type) == [field |-> field, type |-> type]

\* the try block of ChartBuilderV2.updateChart; built is what buildSpec returns
\* or throws
chartBuiltV2(s, built) ==
    IF built.ok THEN [s EXCEPT !.renders = Append(@, built.spec)]
    ELSE [s EXCEPT !.container = Placeholder("Error rendering chart")]

\* ChartBuilderV2.showChartPlaceholder(message)
\* ChartBuilderV2.updateChart() up to its await
updateChartV2(s) ==
    IF Incomplete(s.data, s.fields) THEN [s EXCEPT !.container = Placeholder("")]
    ELSE chartBuiltV2(s, buildSpec([data |-> s.data.rows, chartType |-> "bar",
                                    mappings |-> s.fields,
                                    config |-> [title |-> "Generated Chart",
                                                width |-> Num(500, 0),
                                                height |-> Num(300, 0)]]))

\* updateFieldMapping once the mapping is stored: the thread takes a copy and
\* the chart is updated
fieldStored(stored) ==
    updateChartV2([stored EXCEPT !.threads[stored.thread] = stored.fields])

\* a plausible slip: the type is left out of the mapping stored
updateFieldMappingUntyped(s, encoding, field) ==
    fieldStored([s EXCEPT !.fields[encoding] =
                    IF field = "" THEN NullMapping ELSE [field |-> field]])

\* ChartBuilderV2.updateFieldMapping(encoding, field)
updateFieldMapping(s, encoding, field) ==
    fieldStored([s EXCEPT !.fields[encoding] =
                    IF field = "" THEN NullMapping
                    ELSE FieldMapping(field, inferColumnType(s.data.rows, field))])

\* columns.find(col => inferColumnType(data, col) === type), over the keys of
\* the first row in their order
FirstOfType(rows, columns, types) ==
    LET hits == {i \in 1..Len(columns) : inferColumnType(rows, columns[i]) \in types}
    IN  IF hits = {} THEN ""
        ELSE columns[CHOOSE i \in hits : \A j \in hits : i <= j]

\* suggestFieldMappings: x takes the temporal column, else the nominal one
suggestX(s, temporalCol, nominalCol) ==
    IF temporalCol # "" THEN updateFieldMapping(s, "x", temporalCol)
    ELSE IF nominalCol # "" THEN updateFieldMapping(s, "x", nominalCol)
    ELSE s

\* suggestFieldMappings: y takes the quantitative column
suggestY(s, quantCol) ==
    IF quantCol # "" THEN updateFieldMapping(s, "y", quantCol) ELSE s

\* ChartBuilderV2.suggestFieldMappings(data), columns being Object.keys(data[0])
suggestFieldMappings(s, rows, columns) ==
    IF Len(rows) = 0 THEN s
    ELSE suggestY(suggestX(s, FirstOfType(rows, columns, {"temporal"}),
                           FirstOfType(rows, columns, {"nominal"})),
                  FirstOfType(rows, columns, {"quantitative"}))

\* ChartBuilderV2.loadData(data, sourceName)
loadDataV2(s, rows, columns) ==
    suggestFieldMappings(
        [s EXCEPT !.data = DataOf(rows),
                  !.options = IF Len(rows) = 0 THEN @ ELSE DOMAIN rows[1]],
        rows, columns)

\* ChartBuilderV2.handleFileUpload(file) from the end of the await on
fileLoadedV2(s, file) ==
    LET result == ParsedChartFiles[file]
        done == [s EXCEPT !.uploads = @ - 1]
    IN  IF result.ok THEN loadDataV2(done, result.data, file.header) ELSE done

(* the inputs *)

ChartTypeButtons == {"bar", "pie"}

\* the columns the user drags
DragColumns == {"name", "value"}
ConfigInputs == {[key |-> "title", value |-> "Sales"]}

\* the user acts only while fewer than MaxResets status resets are pending;
\* the user who waits acts when no embed call is in flight, the one who hurries
\* while fewer than MaxInFlight are
Idle ==
    /\ chResets < MaxResets
    /\ Len(chRenders) < (IF chPace = "hurries" THEN MaxInFlight ELSE 1)

\* the page is opened by a user of the pace: the state after the constructor
PageOpens(page, pace) ==
    /\ RestButChart
    /\ chPage = page
    /\ chPace = pace
    /\ currentData = NoData
    /\ currentMappings = IF chPage = "v1"
                         THEN [x |-> NullMapping, y |-> NullMapping, color |-> NullMapping,
                               size |-> NullMapping]
                         ELSE <<>>
    /\ currentChartType = IF chPage = "v1" THEN "bar" ELSE ""
    /\ chartConfig = IF chPage = "v1"
                     THEN [title |-> "", width |-> Num(600, 0), height |-> Num(400, 0)]
                     ELSE <<>>
    /\ columnsList = {}
    /\ previewShown = FALSE
    /\ draggedData = NullMapping
    /\ fieldMappings = IF chPage = "v2"
                       THEN [x |-> NullMapping, y |-> NullMapping, color |-> NullMapping,
                             detail |-> NullMapping, opacity |-> NullMapping]
                       ELSE <<>>
    /\ threads = IF chPage = "v2" THEN <<fieldMappings>> ELSE <<>>
    /\ currentThread = IF chPage = "v2" THEN 1 ELSE 0
    /\ selectOptions = {}
    /\ chStatus = IF chPage = "v1"
                  THEN [text |-> "Ready to build charts", class |-> "status-info"]
                  ELSE [text |-> "", class |-> ""]
    /\ chResets = IF chPage = "v1" THEN 1 ELSE 0
    /\ chUploads = 0
    /\ chRenders = <<>>
    /\ chContainer = Placeholder("")
    /\ currentView = NoSpec
    /\ chUnhandled = FALSE
    /\ chMisused = FALSE
    /\ specDisplay = ""

InitChart == \E page \in {"v1", "v2"} : PageOpens(page, "waits")

InitLoad == PageOpens("v1", "waits")

InitRender == PageOpens("v1", "hurries")

(* the events of ChartBuilder *)

\* a file is picked or dropped on the upload area: handleFileUpload(file) up to
\* its await
HandleFileUpload ==
    /\ chPage = "v1" /\ Idle
    /\ chUploads < MaxUploads
    /\ Becomes([updateStatus(ChartState, "Loading data...", "info")
                   EXCEPT !.uploads = @ + 1])

\* the read of the file ends and parseFile settles
LoadEnds(file) ==
    /\ chPage = "v1"
    /\ chUploads > 0
    /\ Becomes(fileLoaded(ChartState, file))

FileLoaded == \E file \in ChartFiles : LoadEnds(file)

\* the file that loads with rows
ScenarioFile == CHOOSE file \in ChartFiles : file.name = "scenario.csv"

ScenarioLoaded == LoadEnds(ScenarioFile)

\* the files that load
GoodFileLoaded == \E file \in {f \in ChartFiles : ParsedChartFiles[f].ok} : LoadEnds(file)

\* dragstart on a column item
HandleDragStart ==
    /\ chPage = "v1" /\ Idle
    /\ previewShown
    /\ ~IsMapped(draggedData)
    /\ \E item \in columnsList :
          /\ item.column \in DragColumns
          /\ Becomes([ChartState EXCEPT !.dragged = item])

\* the drop zones of the page
MappingZones == {MappingKeys[i] : i \in 1..Len(MappingKeys)}

\* drop on the zone of the encoding; the drop ends the drag, and the dragend
\* event that follows it at once clears draggedData
DropOn(encoding) ==
    /\ chPage = "v1" /\ Idle
    /\ IsMapped(draggedData)
    /\ Becomes([handleDrop(ChartState, encoding) EXCEPT !.dragged = NullMapping])

HandleDrop == \E encoding \in MappingZones : DropOn(encoding)

\* drop on one of the two zones a chart requires
HandleDropXY == \E encoding \in {"x", "y"} : DropOn(encoding)

\* dragend of a drag that ends outside the zones
HandleDragEnd ==
    /\ chPage = "v1"
    /\ IsMapped(draggedData)
    /\ Becomes([ChartState EXCEPT !.dragged = NullMapping])

\* the remove button of a mapped zone
RemoveMapping ==
    /\ chPage = "v1" /\ Idle
    /\ \E encoding \in DOMAIN currentMappings :
          /\ IsMapped(currentMappings[encoding])
          /\ Becomes(removeMapping(ChartState, encoding))

\* a chart type button
SelectChartType ==
    /\ chPage = "v1" /\ Idle
    /\ \E type \in ChartTypeButtons :
          /\ type # currentChartType
          /\ Becomes(updateStatus(updateChart([ChartState EXCEPT !.chartType = type]),
                                  "Chart type changed to " \o type, "info"))

\* input in a configuration field
ConfigInput ==
    /\ chPage = "v1" /\ Idle
    /\ \E input \in ConfigInputs :
          /\ chartConfig[input.key] # input.value
          /\ Becomes(updateChart([ChartState EXCEPT !.config[input.key] = input.value]))

\* the Refresh button
RefreshChart ==
    /\ chPage = "v1" /\ Idle
    /\ Becomes(updateStatus(updateChart(ChartState), "Chart refreshed", "info"))

\* a tab of the specification display
SpecTab ==
    /\ chPage = "v1" /\ Idle
    /\ \E tabType \in {"preview", "vega", "full"} :
          /\ specDisplay # tabType
          /\ Becomes(updateSpecDisplay(ChartState, tabType))

\* the Export button
ExportSpecification ==
    /\ chPage = "v1" /\ Idle
    /\ Becomes(exportSpecification(ChartState))

\* a sample button: loadSampleData(sampleType), whose awaits are on nothing
\* that takes time
SampleEnds(sampleType) ==
    /\ chPage = "v1" /\ Idle
    /\ Becomes(sampleLoaded(ChartState, sampleType))

LoadSample == \E sampleType \in SampleButtons : SampleEnds(sampleType)

\* the Clear All button, confirmed
ClearAll ==
    /\ chPage = "v1" /\ Idle
    /\ currentData.loaded
    /\ Becomes(updateStatus(
                   updateSpecDisplay(
                       [clearMappings([ChartState EXCEPT !.data = NoData])
                           EXCEPT !.preview = FALSE, !.container = Placeholder("")],
                       "preview"),
                   "All data cleared", "info"))

\* a status reset comes due
StatusReset ==
    /\ chPage = "v1"
    /\ chResets > 0
    /\ Becomes([ChartState EXCEPT !.status = [text |-> "Ready", class |-> ""],
                                  !.resets = @ - 1])

Without(seq, i) == SubSeq(seq, 1, i - 1) \o SubSeq(seq, i + 1, Len(seq))

\* the embed call i resolves: the chart is in the container; in ChartBuilder
\* the renderer keeps its view
ResolvesAt(i) ==
    Becomes([ChartState EXCEPT !.renders = Without(@, i),
                               !.container = ChartOf(chRenders[i]),
                               !.view = IF chPage = "v1" THEN chRenders[i] ELSE @])

EmbedResolves == \E i \in 1..Len(chRenders) : ResolvesAt(i)

\* the embed call i rejects.  ChartRenderer.render shows the error panel and
\* throws again, to a promise updateChart did not keep; ChartBuilderV2.updateChart
\* catches and shows its placeholder
RejectsAt(i) ==
    Becomes([ChartState EXCEPT
                !.renders = Without(@, i),
                !.container = IF chPage = "v1" THEN ErrorPanel("embed failed")
                              ELSE Placeholder("Error rendering chart"),
                !.unhandled = IF chPage = "v1" THEN TRUE ELSE @])

EmbedRejects == \E i \in 1..Len(chRenders) : RejectsAt(i)

(* the events of ChartBuilderV2 *)

HandleFileUploadV2 ==
    /\ chPage = "v2" /\ Idle
    /\ chUploads < MaxUploads
    /\ Becomes([ChartState EXCEPT !.uploads = @ + 1])

FileLoadedV2 ==
    /\ chPage = "v2"
    /\ chUploads > 0
    /\ \E file \in ChartFiles :
          Becomes(fileLoadedV2(ChartState, file))

\* change of a field selector
SelectField ==
    /\ chPage = "v2" /\ Idle
    /\ \E encoding \in {FieldKeys[i] : i \in 1..Len(FieldKeys)},
          field \in selectOptions \cup {""} :
          /\ field = "" => IsMapped(fieldMappings[encoding])
          /\ Becomes(updateFieldMapping(ChartState, encoding, field))

\* the user who maps: loads files that load, drags to every zone, configures,
\* in a session whose embed calls fail or stay in flight
NextChart ==
    \/ HandleFileUpload
    \/ GoodFileLoaded
    \/ HandleDragStart
    \/ HandleDrop
    \/ HandleDragEnd
    \/ RemoveMapping
    \/ SelectChartType
    \/ ConfigInput
    \/ RefreshChart
    \/ SpecTab
    \/ ExportSpecification
    \/ ClearAll
    \/ StatusReset
    \/ EmbedRejects
    \/ HandleFileUploadV2
    \/ FileLoadedV2
    \/ SelectField

\* the user who loads: files of every kind and samples, x and y mapped
NextLoad ==
    \/ HandleFileUpload
    \/ FileLoaded
    \/ LoadSample
    \/ HandleDragStart
    \/ HandleDropXY
    \/ HandleDragEnd
    \/ StatusReset
    \/ EmbedResolves
    \/ EmbedRejects

SpecLoad == InitLoad /\ [][NextLoad]_vars

\* the user who hurries: loads, maps x and y, changes the chart type
NextRender ==
    \/ HandleFileUpload
    \/ ScenarioLoaded
    \/ HandleDragStart
    \/ HandleDropXY
    \/ HandleDragEnd
    \/ SelectChartType
    \/ StatusReset
    \/ EmbedResolves
    \/ EmbedRejects

SpecRender == InitRender /\ [][NextRender]_vars

SpecChart == InitChart /\ [][NextChart]_vars

\* a mapping as the orchestrators may store it: null, or the column under the
\* key and a column type
FullOrAbsent(m, key) ==
    \/ m = NullMapping
    \/ /\ DOMAIN m = {key, "type"}
       /\ m[key] # ""
       /\ m.type \in ColumnTypes

\* C11: in every state of the orchestrators each channel of
\* ChartBuilder.currentMappings and of ChartBuilderV2.fieldMappings (and of the
\* current thread's copy) is null or has both a column name and a column type.
C11_FullOrAbsent ==
    /\ chPage = "v1" =>
          \A e \in DOMAIN currentMappings : FullOrAbsent(currentMappings[e], "column")
    /\ chPage = "v2" =>
          \A e \in DOMAIN fieldMappings :
              /\ FullOrAbsent(fieldMappings[e], "field")
              /\ FullOrAbsent(threads[currentThread][e], "field")

\* x, y and size were mapped by drops
C11_Witness ==
    /\ chPage = "v1"
    /\ currentMappings.x = Mapping("name", "nominal")
    /\ currentMappings.y = Mapping("value", "quantitative")
    /\ currentMappings.size = Mapping("value", "quantitative")

\* C12: a drop that validateMapping rejects leaves currentMappings,
\* currentData, currentChartType and chartConfig as they were, starts no render
\* and leaves the chart container alone; its only effect is the status message
\* naming the type, the column and the channel.
C12_RejectedDrop ==
    [][\A encoding \in MappingZones :
          (/\ IsMapped(draggedData)
           /\ ~validateMapping(encoding, draggedData)
           /\ DropOn(encoding)) =>
              /\ UNCHANGED <<currentMappings, currentData, currentChartType, chartConfig>>
              /\ UNCHANGED <<chRenders, chContainer, specDisplay, chResets>>
              /\ chStatus' = [text |-> MappingErrorText(encoding, draggedData),
                              class |-> "status-error"]]_vars

\* the nominal column was dropped on y while x was mapped and the chart shown
C12_Witness ==
    /\ chPage = "v1"
    /\ chStatus.text = "Cannot map nominal column \"name\" to y"
    /\ IsMapped(currentMappings.x) /\ IsMapped(currentMappings.y)
    /\ chContainer.kind = "chart"

\* C13: when the load of a file fails (extension not supported, JSON malformed,
\* CSV of fewer than two lines, format not detectable, file not readable) the
\* status is the error message and the dataset, the mappings, the column items
\* and the chart are what they were.
C13_FailedLoad ==
    [][\A file \in ChartFiles :
          (~ParsedChartFiles[file].ok /\ LoadEnds(file)) =>
              /\ UNCHANGED <<currentData, currentMappings, columnsList, previewShown>>
              /\ UNCHANGED <<chRenders, chContainer>>
              /\ chStatus' = [text |-> "Error loading file: " \o ParsedChartFiles[file].error,
                              class |-> "status-error"]]_vars

\* a load failed while a dataset was loaded and x and y mapped
C13_Witness ==
    /\ chPage = "v1"
    /\ currentData.loaded
    /\ IsMapped(currentMappings.x) /\ IsMapped(currentMappings.y)
    /\ \E file \in ChartFiles :
          /\ ~ParsedChartFiles[file].ok
          /\ chStatus = [text |-> "Error loading file: " \o ParsedChartFiles[file].error,
                         class |-> "status-error"]

\* C14: a rejection of an embed call started by ChartBuilder.updateChart shows
\* the error panel, becomes the status text, and leaves no promise rejection
\* unhandled.
C14_FailuresCaught ==
    [][\A i \in 1..Len(chRenders) :
          (chPage = "v1" /\ RejectsAt(i)) =>
              /\ chContainer'.kind = "error"
              /\ chStatus'.class = "status-error"
              /\ ~chUnhandled']_vars

\* the part of C14 that holds: the rejection puts the error panel in the place
\* of the chart
C14_ErrorPanel ==
    [][\A i \in 1..Len(chRenders) :
          (chPage = "v1" /\ RejectsAt(i)) => chContainer'.kind = "error"]_vars

\* C21: ChartBuilder calls the specification builder (from updateChart,
\* updateSpecDisplay and exportSpecification) only with a dataset that has rows
\* and with x and y mapped; a step that leaves the dataset missing or x or y
\* unmapped, having changed the dataset or the mappings, shows the placeholder
\* and hands no specification to the renderer.
C21_BuilderGuarded ==
    [][/\ ~chMisused'
       /\ (/\ chPage = "v1"
           /\ <<currentData, currentMappings>>' # <<currentData, currentMappings>>
           /\ Incomplete(currentData', currentMappings')) =>
              (chContainer' = Placeholder("") /\ chRenders' = chRenders)]_vars

\* the builder was called from the 'full' tab and from the export, on the
\* dataset with x and y mapped
C21_Witness ==
    /\ chPage = "v1"
    /\ ~Incomplete(currentData, currentMappings)
    /\ specDisplay = "full"
    /\ chStatus.text = "Chart specification exported"

\* C22: renders are serialized: an embed call starts only after the one before
\* it has settled, so at most one is in flight at any time.
C22_OneInFlight == Len(chRenders) <= 1

\* an embed call of the page settles in this step
Settles == \E i \in 1..Len(chRenders) : ResolvesAt(i) \/ RejectsAt(i)

\* C23: the chart shown and ChartRenderer.currentView are those of the embed
\* call that resolved last, whatever was requested since: a call that resolves
\* puts its own specification in both, every other step leaves currentView
\* alone and leaves every embed call in flight as it is (none is cancelled),
\* and a chart on show is the one of currentView.
C23_LastCompleted ==
    [][/\ \A i \in 1..Len(chRenders) :
             ResolvesAt(i) =>
                 (chContainer' = ChartOf(chRenders[i]) /\ currentView' = chRenders[i])
       /\ ~Settles =>
             /\ currentView' = currentView
             /\ Len(chRenders') >= Len(chRenders)
             /\ SubSeq(chRenders', 1, Len(chRenders)) = chRenders
       /\ chContainer'.kind = "chart" => chContainer'.spec = currentView']_vars

\* two renders were requested, the first resolved last: the chart on show is
\* not the one of the chart type selected
C23_Witness ==
    /\ chPage = "v1"
    /\ chRenders = <<>>
    /\ chContainer.kind = "chart"
    /\ currentView = chContainer.spec
    /\ ~Incomplete(currentData, currentMappings)
    /\ chContainer.spec # buildSpec(SpecArgs(ChartState)).spec

\* C25: inferColumnType, validateMapping, buildSpec and buildFullSpec change
\* nothing of what they are handed: a step of ChartBuilder that changes
\* currentData, currentMappings or chartConfig is a load, a mapping drop, a
\* mapping removal, a clear-all or a configuration input; showing or exporting
\* the specification, refreshing, selecting a chart type and rejected drops
\* leave all three as they were.
C25_OwnedByOrchestrator ==
    [][(/\ chPage = "v1"
        /\ <<currentData, currentMappings, chartConfig>>'
               # <<currentData, currentMappings, chartConfig>>) =>
           (GoodFileLoaded \/ HandleDrop \/ RemoveMapping \/ ClearAll \/ ConfigInput)]_vars

\* the 'vega' tab showed the specification built from the dataset, the mappings
\* and the configuration, the title still the empty one of the constructor
C25_Witness ==
    /\ chPage = "v1"
    /\ specDisplay = "vega"
    /\ ~Incomplete(currentData, currentMappings)
    /\ chartConfig.title = ""
    /\ IsMapped(currentMappings.color)

\* what a successful load leaves: the dataset is the one loaded, every channel
\* is unmapped, the placeholder is shown, and the step has called no builder
\* and started no render
LoadLeaves(rows) ==
    /\ currentData' = DataOf(rows)
    /\ \A e \in DOMAIN currentMappings' : currentMappings'[e] = NullMapping
    /\ chContainer' = Placeholder("")
    /\ specDisplay' = "Configure chart to see specification"
    /\ chRenders' = chRenders
    /\ chMisused' = chMisused

C27_FieldsEncoded ==
    [][(/\ chPage = "v2"
        /\ SelectField
        /\ ~Incomplete(currentData', fieldMappings')) =>
           /\ Len(chRenders') = Len(chRenders) + 1
           /\ LET spec == chRenders'[Len(chRenders')]
              IN  /\ spec.encoding.x.field = Cell(fieldMappings'.x.field)
                  /\ spec.encoding.y.field = Cell(fieldMappings'.y.field)]_vars

\* C28: an error status of ChartBuilder stays on show until updateStatus is
\* called again: the step that replaces it is never the firing of a reset
\* timer.
C28_ErrorStays ==
    [][(/\ chPage = "v1"
        /\ chStatus.class = "status-error"
        /\ chStatus' # chStatus) => ~StatusReset]_vars

=============================================================================
